---- MODULE Spec2Model ----
(***************************************************************************)
(* A model of trustydns: the bestserver managers (latency and traditional) *)
(* and the proxy's ServeDNS handler.                                       *)
(*                                                                         *)
(* Times are integers: 0 is Go's zero time.Time, the clock starts at 1.    *)
(* Durations are integers (nanoseconds in the source).  Server indexes are *)
(* 0-based as in the source; a Server is modelled by its name.             *)
(***************************************************************************)
EXTENDS Integers, Sequences, FiniteSets, TLC

\* ------------------------------------------------------------------ bounds

\* Largest server list handed to NewLatency / NewTraditional.
MaxServers == 2
\* Largest server list of the outage scenario (every Result() a failure).
MaxOutageServers == 3
\* The clock runs from 1 to MaxTime.
MaxTime == 3
\* Latencies reported with a successful Result() are drawn from 0..MaxLatency.
MaxLatency == 2
\* Result() is not called once assessCount or sampleCount has reached this bound.
MaxCount == 3
\* Result() calls of the outage scenario.
MaxOutageResults == 6
\* Queries served by the proxy.
MaxQueries == 2
\* Resource records per section of a resolver reply.
MaxRR == 1
\* Goroutines calling Resolve on the local resolver.
MaxCallers == 1
\* Name servers of the local resolver's resolv.conf.
MaxLocalServers == 3
\* "options attempts:" of resolv.conf is drawn from 1..MaxAttempts.
MaxAttempts == 3
\* "options timeout:" of resolv.conf, in seconds, is drawn from 1..MaxTimeout.
MaxTimeout == 1
\* The rtt of an exchange, in seconds, is drawn from 0..MaxRtt.
MaxRtt == 1
\* Resolve calls made on the local resolver.
MaxResolves == 2
\* Listeners of a daemon (listen addresses times transports).
MaxListeners == 2
\* Signals sent to a daemon.
MaxSignals == 2
\* Message IDs run from 0 to MaxId.
MaxId == 1
\* Sub-options in an OPT RR of a query.
MaxOption == 1
\* Resource records in the Extra section of a query.
MaxExtra == 2
\* Requests the DoH server handles.
MaxDohRequests == 1
MaxRemoteResolves == 1
MaxRemoteDuration == 1
MaxConcurrency == 7
MaxSessions == 2
MaxTrackerErrors == 1
MaxTrackerTime == 2

\* ------------------------------------------------- LatencyConfig of the run

ReassessAfter == 1
ReassessCount == 2
ResetFailedAfter == 1
SampleOthersEvery == 2
\* DefaultLatencyConfig.WeightForLatest
WeightForLatest == 67

\* ------------------------------------------------------- program constants

DNSTruncateThreshold == 512
DNSUDPTransport == "udp"
DNSTCPTransport == "tcp"

\* const ( serNoResponse = iota; serDNSWriteFailed; serListSize )
serNoResponse == 0
serDNSWriteFailed == 1
serListSize == 2
\* const ( evInTruncated = iota; evOutTruncated; evListSize )
evInTruncated == 0
evOutTruncated == 1
evListSize == 2

\* --------------------------------------------------------------- bestserver

ServerNames == <<"first", "second", "third", "fourth", "fifth", "sixth">>
\* A Server that is not part of the collection.
UnknownServer == "unknown"

LatencyAlgorithm == "latency"
TraditionalAlgorithm == "traditional"

algNone == "algNone"
algOnlyOne == "algOnlyOne"
algFirstCab == "algFirstCab"
algSecondCab == "algSecondCab"
algFastest == "algFastest"
algAllBad == "algAllBad"

VARIABLES
    algType,            \* baseManager.algType
    serverCount,        \* baseManager.serverCount
    bestIndex,          \* baseManager.bestIndex
    stats,              \* latency.stats
    assessCount,        \* latency.assessCount
    sampleCount,        \* latency.sampleCount
    sampleIndex,        \* latency.sampleIndex
    saveBestIndex,      \* latency.saveBestIndex
    bestExpires,        \* latency.bestExpires
    reassessRationale,  \* latency.reassessRationale
    clock,              \* time.Now() of the callers
    call,               \* the last Best()/Result() call: its arguments and its return
    pc,                 \* the position of the caller that loops Best() then Result()
    since,              \* per server: Result() calls since Best() last returned it
    results,            \* Result() calls made in the outage scenario
    transport,          \* proxy server.transport
    local,              \* proxy server.local is not nil
    successCount,       \* proxy server.stats.successCount
    totalLatency,       \* proxy server.stats.totalLatency
    eventCounters,      \* proxy server.stats.eventCounters
    failureCounters,    \* proxy server.stats.failureCounters
    served,             \* the last query given to ServeDNS and what became of it
    resolverConfig,     \* local.resolverConfig: Attempts and Timeout
    resolverStats,      \* local.resolverStats
    bsList,             \* local.bsList: the bestServerStats of each name server
    resolve,            \* per caller: the local variables of its Resolve call
    daemon,             \* which daemon runs: the proxy or the DoH server
    listener,           \* per listener: the position of the goroutine server.start began
    stopAsked,          \* per listener: server.stop() has been called
    errorChannel,       \* the errors buffered in errorChannel, by who sent them
    wg,                 \* the counter of the WaitGroup wg
    mainPc,             \* the position of the main goroutine
    constrain,          \* the position of the goroutine that calls osutil.Constrain
    stopChannel,        \* the signals buffered in stopChannel
    signals,            \* signals the process has been sent
    dohConfig,          \* the DoH server's cfg: ecsRemove, ecsSet and the prefix lengths
    dohStats,           \* the DoH server's stats
    doh,                \* the last request serveDoH handled, and what it did with it
    remoteConfig,       \* remote.config of the DoH resolver, as doh.New accepted it
    remoteStats,        \* remote.failures and the counters of remote.bsList
    remote,             \* the local variables of the resolver's Resolve call
    counter,            \* concurrencytracker.Counter: current and peak
    counted,            \* the last call of a method of the Counter
    tracker,            \* connectiontracker.Tracker: connMap and trackerStats
    tracked,            \* the last call of a method of the Tracker
    padded,             \* the last call of dnsutil.PadAndPack: its arguments and its return
    reduced             \* the last call of dnsutil.ReduceTTL: its arguments and the message after

mgrVars == <<bestIndex, stats, assessCount, sampleCount, sampleIndex, saveBestIndex,
             bestExpires, reassessRationale>>
loopVars == <<pc, since>>
proxyVars == <<transport, local, successCount, totalLatency, eventCounters, failureCounters, served>>

localVars == <<resolverConfig, resolverStats, bsList, resolve>>
daemonVars == <<daemon, listener, stopAsked, errorChannel, wg, mainPc, constrain,
                stopChannel, signals>>
serveVars == <<dohConfig, dohStats, doh>>
remoteVars == <<remoteConfig, remoteStats, remote>>
counterVars == <<counter, counted>>
trackerVars == <<tracker, tracked>>
dnsutilVars == <<padded, reduced>>
laterVars == <<serveVars, remoteVars, counterVars, trackerVars, dnsutilVars>>
restVars == <<localVars, daemonVars, laterVars>>

vars == <<algType, serverCount, mgrVars, clock, call, loopVars, results, proxyVars, restVars>>

\* latencyServerStats{}
ZeroStats == [lastStatusTime |-> 0, lastStatusWasFailure |-> FALSE, weightedAverage |-> 0]

\* baseManager.servers: the first serverCount names
servers(n) == SubSeq(ServerNames, 1, n)

\* baseManager.serverToIndex: the index of a Server, -1 when it is not in the map
serverToIndex(n, server) ==
    IF \E i \in 1..n : ServerNames[i] = server
    THEN (CHOOSE i \in 1..n : ServerNames[i] = server) - 1
    ELSE -1

\* The manager as one value, as the methods see it through their receiver t.
Self ==
    [serverCount |-> serverCount, bestIndex |-> bestIndex, stats |-> stats,
     assessCount |-> assessCount, sampleCount |-> sampleCount,
     sampleIndex |-> sampleIndex, saveBestIndex |-> saveBestIndex,
     bestExpires |-> bestExpires, reassessRationale |-> reassessRationale]

\* reassessCase without the test of ResetFailedAfter: a failed server is rehabilitated
\* by the first reassessment that comes across it.
reassessCaseRehabAtOnce(acc, ix, now) ==
    LET st == acc.stats[ix] IN
    IF st.lastStatusWasFailure
    THEN [acc EXCEPT !.stats[ix] = ZeroStats]
    ELSE IF acc.newBest = -1
    THEN [acc EXCEPT !.newBest = ix, !.rationale = algFirstCab]
    ELSE IF st.weightedAverage = 0
    THEN acc
    ELSE IF acc.stats[acc.newBest].weightedAverage = 0
    THEN [acc EXCEPT !.newBest = ix, !.rationale = algSecondCab]
    ELSE IF st.weightedAverage < acc.stats[acc.newBest].weightedAverage
    THEN [acc EXCEPT !.newBest = ix, !.rationale = algFastest]
    ELSE acc

\* reassessCase with the comparison of the averages the wrong way round.
reassessCasePrefersSlowest(acc, ix, now) ==
    LET st == acc.stats[ix] IN
    IF st.lastStatusWasFailure
    THEN IF st.lastStatusTime + ResetFailedAfter < now
         THEN [acc EXCEPT !.stats[ix] = ZeroStats]
         ELSE acc
    ELSE IF acc.newBest = -1
    THEN [acc EXCEPT !.newBest = ix, !.rationale = algFirstCab]
    ELSE IF st.weightedAverage = 0
    THEN acc
    ELSE IF acc.stats[acc.newBest].weightedAverage = 0
    THEN [acc EXCEPT !.newBest = ix, !.rationale = algSecondCab]
    ELSE IF st.weightedAverage > acc.stats[acc.newBest].weightedAverage
    THEN [acc EXCEPT !.newBest = ix, !.rationale = algFastest]
    ELSE acc

\* One iteration of the loop of reassessBest: the switch on server ix.
reassessCase(acc, ix, now) ==
    LET st == acc.stats[ix] IN
    IF st.lastStatusWasFailure
    THEN IF st.lastStatusTime + ResetFailedAfter < now
         THEN [acc EXCEPT !.stats[ix] = ZeroStats]
         ELSE acc
    ELSE IF acc.newBest = -1
    THEN [acc EXCEPT !.newBest = ix, !.rationale = algFirstCab]
    ELSE IF st.weightedAverage = 0
    THEN acc
    ELSE IF acc.stats[acc.newBest].weightedAverage = 0
    THEN [acc EXCEPT !.newBest = ix, !.rationale = algSecondCab]
    ELSE IF st.weightedAverage < acc.stats[acc.newBest].weightedAverage
    THEN [acc EXCEPT !.newBest = ix, !.rationale = algFastest]
    ELSE acc

RECURSIVE reassessLoop(_, _, _, _)
reassessLoop(acc, ix, n, now) ==
    IF ix >= n THEN acc ELSE reassessLoop(reassessCase(acc, ix, now), ix + 1, n, now)

\* allBadNext without the move to the next server.
allBadStay(t) == t.bestIndex

\* The fallback of reassessBest when no server was chosen by the loop.
allBadNext(t) == (t.bestIndex + 1) % t.serverCount

reassessBest(t, now) ==
    IF t.serverCount = 1
    THEN [t EXCEPT !.reassessRationale = algOnlyOne]
    ELSE LET acc == reassessLoop([stats |-> t.stats, newBest |-> -1, rationale |-> algNone],
                                 0, t.serverCount, now)
             allBad == acc.newBest = -1
         IN [t EXCEPT !.stats = acc.stats,
                      !.reassessRationale = IF allBad THEN algAllBad ELSE acc.rationale,
                      !.bestIndex = IF allBad THEN allBadNext(t) ELSE acc.newBest,
                      !.bestExpires = now + ReassessAfter]

\* reassessDue without the test that the report is about the 'best' server.
reassessDueAnyServer(t, now, ix, success) ==
    ~success \/ t.assessCount >= ReassessCount \/ now > t.bestExpires

\* reassessDue without its thresholds: every report about the 'best' server reassesses.
reassessDueEveryReport(t, now, ix, success) ==
    ix = t.bestIndex

\* The condition of assess under which the 'best' server is reassessed.
reassessDue(t, now, ix, success) ==
    /\ ix = t.bestIndex
    /\ (~success \/ t.assessCount >= ReassessCount \/ now > t.bestExpires)

\* sampleOthers that samples the same server again instead of the next in sequence.
sampleOthersSameSample(t) ==
    LET t1 == [t EXCEPT !.sampleCount = @ + 1] IN
    IF t1.sampleCount < SampleOthersEvery
    THEN [t1 EXCEPT !.bestIndex = t1.saveBestIndex]
    ELSE LET si == t1.sampleIndex IN
         IF ~t1.stats[si].lastStatusWasFailure
         THEN [t1 EXCEPT !.sampleIndex = si, !.bestIndex = si, !.sampleCount = 0]
         ELSE [t1 EXCEPT !.sampleIndex = si]

\* sampleOthers without the test that the sample server is not failing.
sampleOthersEvenFailing(t) ==
    LET t1 == [t EXCEPT !.sampleCount = @ + 1] IN
    IF t1.sampleCount < SampleOthersEvery
    THEN [t1 EXCEPT !.bestIndex = t1.saveBestIndex]
    ELSE LET si == (t1.sampleIndex + 1) % t1.serverCount IN
         [t1 EXCEPT !.sampleIndex = si, !.bestIndex = si, !.sampleCount = 0]

\* The second half of assess: sample another server, or revert to the real 'best'.
sampleOthers(t) ==
    LET t1 == [t EXCEPT !.sampleCount = @ + 1] IN
    IF t1.sampleCount < SampleOthersEvery
    THEN [t1 EXCEPT !.bestIndex = t1.saveBestIndex]
    ELSE LET si == (t1.sampleIndex + 1) % t1.serverCount IN
         IF ~t1.stats[si].lastStatusWasFailure
         THEN [t1 EXCEPT !.sampleIndex = si, !.bestIndex = si, !.sampleCount = 0]
         ELSE [t1 EXCEPT !.sampleIndex = si]

assess(t, now, ix, success) ==
    LET t1 == [t EXCEPT !.assessCount = @ + 1]
        t2 == IF reassessDue(t1, now, ix, success)
              THEN LET r == reassessBest(t1, now)
                   IN [r EXCEPT !.saveBestIndex = r.bestIndex, !.assessCount = 0]
              ELSE t1
    IN sampleOthers(t2)

\* The weighted average of latency.Result, with Go's integer division.
newWeightedAverage(old, latency) ==
    IF old = 0
    THEN latency
    ELSE (latency * WeightForLatest + old * (100 - WeightForLatest)) \div 100

\* latency.Result for a server found in serverToIndex at ix.
latencyResult(t, ix, success, now, latency) ==
    LET st == t.stats[ix]
        st1 == [lastStatusTime |-> now,
                lastStatusWasFailure |-> ~success,
                weightedAverage |-> IF success
                                    THEN newWeightedAverage(st.weightedAverage, latency)
                                    ELSE st.weightedAverage]
    IN assess([t EXCEPT !.stats[ix] = st1], now, ix, success)

\* traditionalResult moving on at any failure, whichever server it is reported for.
traditionalResultAnyFailure(t, ix, success) ==
    IF success
    THEN t
    ELSE [t EXCEPT !.bestIndex = (t.bestIndex + 1) % t.serverCount]

\* traditional.Result for a server found in serverToIndex at ix.
traditionalResult(t, ix, success) ==
    IF success
    THEN t
    ELSE IF ix = t.bestIndex
    THEN [t EXCEPT !.bestIndex = (t.bestIndex + 1) % t.serverCount]
    ELSE t

\* Whether a Result() with these arguments reaches reassessBest.
reassesses(t, ix, success, now) ==
    reassessDue([t EXCEPT !.assessCount = @ + 1], now, ix, success)

\* The manager after the state change t2.
Becomes(t2) ==
    /\ bestIndex' = t2.bestIndex
    /\ stats' = t2.stats
    /\ assessCount' = t2.assessCount
    /\ sampleCount' = t2.sampleCount
    /\ sampleIndex' = t2.sampleIndex
    /\ saveBestIndex' = t2.saveBestIndex
    /\ bestExpires' = t2.bestExpires
    /\ reassessRationale' = t2.reassessRationale

NoCall == [op |-> "New", server |-> UnknownServer, success |-> FALSE, index |-> -1,
           was |-> -1, reassessed |-> FALSE, again |-> FALSE]

\* Every server of the collection is marked failed.
allFailed(st, n) == \A ix \in 0..(n - 1) : st[ix].lastStatusWasFailure

\* NewLatency / NewTraditional (baseManager.init) with n distinct servers.
NewManager(alg, n) ==
    /\ algType = alg
    /\ serverCount = n
    /\ bestIndex = 0
    /\ stats = [ix \in 0..(n - 1) |-> ZeroStats]
    /\ assessCount = 0
    /\ sampleCount = 0
    /\ sampleIndex = 0
    /\ saveBestIndex = 0
    /\ bestExpires = 0
    /\ reassessRationale = algNone
    /\ clock = 1
    /\ call = NoCall

\* No looping caller, no outage scenario, no proxy.
NoLoop == pc = "none" /\ since = <<>>
NoOutage == results = 0
NoQuery == [resolver |-> "none"]
NoProxy ==
    /\ transport = "none"
    /\ local = FALSE
    /\ successCount = 0
    /\ totalLatency = 0
    /\ eventCounters = [ev \in 0..(evListSize - 1) |-> 0]
    /\ failureCounters = [ser \in 0..(serListSize - 1) |-> 0]
    /\ served = NoQuery

\* No local resolver.
NoLocal ==
    /\ resolverConfig = <<>>
    /\ resolverStats = <<>>
    /\ bsList = <<>>
    /\ resolve = <<>>
\* No daemon.
NoDaemon ==
    /\ daemon = "none"
    /\ listener = <<>>
    /\ stopAsked = <<>>
    /\ errorChannel = <<>>
    /\ wg = 0
    /\ mainPc = "none"
    /\ constrain = "none"
    /\ stopChannel = <<>>
    /\ signals = 0
\* No DoH server.
NoServe ==
    /\ dohConfig = <<>>
    /\ dohStats = <<>>
    /\ doh = <<>>
NoRemote ==
    /\ remoteConfig = <<>>
    /\ remoteStats = <<>>
    /\ remote = <<>>
NoCounter ==
    /\ counter = <<>>
    /\ counted = <<>>
NoTracker ==
    /\ tracker = <<>>
    /\ tracked = <<>>
NoDnsutil ==
    /\ padded = <<>>
    /\ reduced = <<>>
NoLater == NoServe /\ NoRemote /\ NoCounter /\ NoTracker /\ NoDnsutil
NoRest == NoLocal /\ NoDaemon /\ NoLater

\* The value baseManager.Best returns, and the call it leaves on record.
BestCall ==
    [op |-> "Best", server |-> servers(serverCount)[bestIndex + 1], success |-> FALSE,
     index |-> bestIndex, was |-> bestIndex, reassessed |-> FALSE,
     again |-> call.op = "Best"]

\* A Result() call on record.
ResultCall(server, success) ==
    LET ix == serverToIndex(serverCount, server) IN
    [op |-> "Result", server |-> server, success |-> success, index |-> ix,
     was |-> bestIndex,
     reassessed |-> /\ ix # -1
                    /\ algType = LatencyAlgorithm
                    /\ reassesses(Self, ix, success, clock),
     again |-> FALSE]

\* The state change of Result(server, success, now, latency) with now = clock.
ResultBecomes(server, success, latency) ==
    LET ix == serverToIndex(serverCount, server) IN
    IF ix = -1
    THEN UNCHANGED mgrVars
    ELSE IF algType = LatencyAlgorithm
    THEN Becomes(latencyResult(Self, ix, success, clock, latency))
    ELSE Becomes(traditionalResult(Self, ix, success))

\* ------------------------------ any callers, any servers (SpecBestServer)

InitBestServer ==
    /\ \E alg \in {LatencyAlgorithm, TraditionalAlgorithm}, n \in 1..MaxServers :
          NewManager(alg, n)
    /\ NoLoop /\ NoOutage /\ NoProxy /\ NoRest

\* Best() as it would be if it counted its calls to end a sample: the sample server is
\* handed out once and Best() itself reverts to the real 'best'.
BestEndsSample ==
    /\ call' = BestCall
    /\ bestIndex' = saveBestIndex
    /\ UNCHANGED <<algType, serverCount, stats, assessCount, sampleCount, sampleIndex,
                   saveBestIndex, bestExpires, reassessRationale, clock, loopVars,
                   results, proxyVars, restVars>>

\* baseManager.Best
Best ==
    /\ call' = BestCall
    /\ UNCHANGED <<algType, serverCount, mgrVars, clock, loopVars, results, proxyVars, restVars>>

\* latency.Result / traditional.Result, called by any goroutine with now = time.Now()
Result ==
    /\ assessCount < MaxCount
    /\ sampleCount < MaxCount
    /\ \E server \in {ServerNames[i] : i \in 1..serverCount} \cup {UnknownServer},
          success \in BOOLEAN :
          \E latency \in IF success THEN 0..MaxLatency ELSE {0} :
             /\ call' = ResultCall(server, success)
             /\ ResultBecomes(server, success, latency)
    /\ UNCHANGED <<algType, serverCount, clock, loopVars, results, proxyVars, restVars>>

\* Time passes between calls.
Tick ==
    /\ clock < MaxTime
    /\ clock' = clock + 1
    /\ UNCHANGED <<algType, serverCount, mgrVars, call, loopVars, results, proxyVars, restVars>>

NextBestServer == Best \/ Result \/ Tick

SpecBestServer == InitBestServer /\ [][NextBestServer]_vars

\* ------------- one caller looping Best() then Result(best, true) (SpecLoop)

InitLoop ==
    /\ \E n \in 2..(MaxServers + 1) : NewManager(LatencyAlgorithm, n)
    /\ pc = "Best"
    /\ since = [ix \in 0..(serverCount - 1) |-> 0]
    /\ NoOutage /\ NoProxy /\ NoRest

\* server, _ := bs.Best()
LoopBest ==
    /\ pc = "Best"
    /\ call' = BestCall
    /\ since' = [since EXCEPT ![bestIndex] = 0]
    /\ pc' = "Result"
    /\ UNCHANGED <<algType, serverCount, mgrVars, clock, results, proxyVars, restVars>>

\* bs.Result(server, true, time.Now(), latency)
LoopResult ==
    /\ pc = "Result"
    /\ \A ix \in 0..(serverCount - 1) : since[ix] <= serverCount * SampleOthersEvery
    /\ \E latency \in 0..MaxLatency :
          /\ call' = ResultCall(call.server, TRUE)
          /\ ResultBecomes(call.server, TRUE, latency)
    /\ since' = [ix \in 0..(serverCount - 1) |-> since[ix] + 1]
    /\ pc' = "Best"
    /\ UNCHANGED <<algType, serverCount, clock, results, proxyVars, restVars>>

NextLoop == LoopBest \/ LoopResult \/ Tick

SpecLoop == InitLoop /\ [][NextLoop]_vars

\* --------------------- every Result() reports a failure (SpecOutage)

InitOutage ==
    /\ \E n \in 2..MaxOutageServers : NewManager(LatencyAlgorithm, n)
    /\ results = 0
    /\ NoLoop /\ NoProxy /\ NoRest

\* bs.Result(server, false, time.Now(), 0) by any goroutine
OutageResult ==
    /\ results < MaxOutageResults
    /\ results' = results + 1
    /\ \E server \in {ServerNames[i] : i \in 1..serverCount} :
          /\ call' = ResultCall(server, FALSE)
          /\ ResultBecomes(server, FALSE, 0)
    /\ UNCHANGED <<algType, serverCount, clock, loopVars, proxyVars, restVars>>

NextOutage == Best \/ OutageResult \/ Tick

SpecOutage == InitOutage /\ [][NextOutage]_vars

\* ------------------------------------------------ the proxy (SpecProxy)

\* The query has no EDNS0 OPT: query.IsEdns0() = nil.
NoOpt == -1
\* UDPSize of the OPT of a client's query.
UDPSizes == {256, 768}
\* ResponseMetaData.PayloadSize of a resolver's reply.
PayloadSizes == {512, 513, 768, 769}
\* Latencies of a query, as measured around Resolve.
Durations == {1, 2}

\* A reply of a resolver: the TC flag and the RR count of each section.
Replies == [Truncated : BOOLEAN, Answer : 0..MaxRR, Ns : 0..MaxRR, Extra : 0..MaxRR]

\* The resolver ServeDNS hands the query to.
currResolver(hasLocal, questions, inBailiwick) ==
    IF hasLocal /\ questions > 0 /\ inBailiwick THEN "local" ELSE "remote"

\* truncateLimit without the client's UDPSize.
truncateLimitOfSystem(opt) == DNSTruncateThreshold

\* The size limit of the client: the larger of the threshold and the query's UDPSize.
truncateLimit(opt) ==
    IF opt # NoOpt /\ opt > DNSTruncateThreshold THEN opt ELSE DNSTruncateThreshold

\* Whether ServeDNS calls Truncate on the reply.
mustTruncate(trans, payloadSize, opt) ==
    /\ trans = DNSUDPTransport
    /\ payloadSize > DNSTruncateThreshold
    /\ payloadSize > truncateLimit(opt)

rrCount(msg) == msg.Answer + msg.Ns + msg.Extra

\* dns.Msg.Truncate of github.com/miekg/dns, which is not part of the repository and
\* "has changed over time": it may drop records from the tail of any section and
\* may leave the TC flag set or clear.
libTruncate(resp, limit) ==
    {m \in Replies : m.Answer <= resp.Answer /\ m.Ns <= resp.Ns /\ m.Extra <= resp.Extra}

\* truncatedFlag without the comparison of the record counts.
truncatedFlagIgnoresCount(libTruncated, preserveTruncated, beforeCount, afterCount) ==
    libTruncated \/ preserveTruncated

\* truncatedFlag relying on Truncate to keep a TC flag that was already set.
truncatedFlagOfLibrary(libTruncated, preserveTruncated, beforeCount, afterCount) ==
    libTruncated \/ beforeCount # afterCount

\* resp.Truncated after ServeDNS has called Truncate.
truncatedFlag(libTruncated, preserveTruncated, beforeCount, afterCount) ==
    libTruncated \/ preserveTruncated \/ beforeCount # afterCount

\* The messages ServeDNS may hand to WriteMsg for this reply.
outMessages(trans, resp, payloadSize, opt) ==
    IF mustTruncate(trans, payloadSize, opt)
    THEN {[m EXCEPT !.Truncated = truncatedFlag(m.Truncated, resp.Truncated,
                                                rrCount(resp), rrCount(m))] :
             m \in libTruncate(resp, truncateLimit(opt))}
    ELSE {resp}

\* The events of one query.
queryEvents(trans, resp, payloadSize, opt) ==
    [ev \in 0..(evListSize - 1) |->
        IF ev = evInTruncated THEN resp.Truncated ELSE mustTruncate(trans, payloadSize, opt)]

countEvents(counters, evs) ==
    [ev \in 0..(evListSize - 1) |-> IF evs[ev] THEN counters[ev] + 1 ELSE counters[ev]]

addSuccessStats(latency, evs) ==
    /\ successCount' = successCount + 1
    /\ totalLatency' = totalLatency + latency
    /\ eventCounters' = countEvents(eventCounters, evs)
    /\ UNCHANGED failureCounters

\* addFailureStats counting the failure twice.
addFailureStatsTwice(ser, evs) ==
    /\ failureCounters' = [failureCounters EXCEPT ![ser] = @ + 2]
    /\ eventCounters' = countEvents(eventCounters, evs)
    /\ UNCHANGED <<successCount, totalLatency>>

addFailureStats(ser, evs) ==
    /\ failureCounters' = [failureCounters EXCEPT ![ser] = @ + 1]
    /\ eventCounters' = countEvents(eventCounters, evs)
    /\ UNCHANGED <<successCount, totalLatency>>

NoEvents == [ev \in 0..(evListSize - 1) |-> FALSE]
NoReply == [Truncated |-> FALSE, Answer |-> 0, Ns |-> 0, Extra |-> 0]

queriesServed == successCount + failureCounters[serNoResponse] + failureCounters[serDNSWriteFailed]

\* A listener of the proxy: its transport, with or without a local resolver.
InitProxy ==
    /\ transport \in {DNSUDPTransport, DNSTCPTransport}
    /\ local \in BOOLEAN
    /\ successCount = 0
    /\ totalLatency = 0
    /\ eventCounters = [ev \in 0..(evListSize - 1) |-> 0]
    /\ failureCounters = [ser \in 0..(serListSize - 1) |-> 0]
    /\ served = NoQuery
    /\ NewManager(LatencyAlgorithm, 1)
    /\ NoLoop /\ NoOutage /\ NoRest

\* server.ServeDNS, when Resolve returns an error
ServeDNSNoResponse ==
    /\ served = NoQuery
    /\ queriesServed < MaxQueries
    /\ \E questions \in 0..1, inBailiwick \in BOOLEAN, opt \in {NoOpt} \cup UDPSizes :
          served' = [resolver |-> currResolver(local, questions, inBailiwick),
                     opt |-> opt, err |-> TRUE, resp |-> NoReply, payloadSize |-> 0,
                     written |-> FALSE, writeFailed |-> FALSE, out |-> NoReply]
    /\ addFailureStats(serNoResponse, NoEvents)
    /\ UNCHANGED <<transport, local>>
    /\ UNCHANGED <<algType, serverCount, mgrVars, clock, call, loopVars, results, restVars>>

\* server.ServeDNS, when Resolve returns a reply
ServeDNSReply ==
    /\ served = NoQuery
    /\ queriesServed < MaxQueries
    /\ \E questions \in 0..1, inBailiwick \in BOOLEAN, opt \in {NoOpt} \cup UDPSizes,
          resp \in Replies, payloadSize \in PayloadSizes, duration \in Durations,
          writeFailed \in BOOLEAN :
          \E out \in outMessages(transport, resp, payloadSize, opt) :
             /\ served' = [resolver |-> currResolver(local, questions, inBailiwick),
                           opt |-> opt, err |-> FALSE, resp |-> resp,
                           payloadSize |-> payloadSize, written |-> ~writeFailed,
                           writeFailed |-> writeFailed, out |-> out]
             /\ IF writeFailed
                THEN addFailureStats(serDNSWriteFailed,
                                     queryEvents(transport, resp, payloadSize, opt))
                ELSE addSuccessStats(duration,
                                     queryEvents(transport, resp, payloadSize, opt))
    /\ UNCHANGED <<transport, local>>
    /\ UNCHANGED <<algType, serverCount, mgrVars, clock, call, loopVars, results, restVars>>

\* ServeDNS has returned and its goroutine ended: the listener takes the next query.
ServeDNSDone ==
    /\ served # NoQuery
    /\ served' = NoQuery
    /\ UNCHANGED <<transport, local, successCount, totalLatency, eventCounters,
                   failureCounters>>
    /\ UNCHANGED <<algType, serverCount, mgrVars, clock, call, loopVars, results, restVars>>

NextProxy == ServeDNSNoResponse \/ ServeDNSReply \/ ServeDNSDone

SpecProxy == InitProxy /\ [][NextProxy]_vars

\* ------------------------------------------- local resolver (SpecLocal)

\* dns.Rcode* of the DNS library, as named in the switch of Resolve
RcodeSuccess == 0
RcodeFormatError == 1
RcodeServerFailure == 2
RcodeNameError == 3
RcodeNotImplemented == 4
RcodeRefused == 5
\* an RCODE the switch of Resolve does not name (dns.RcodeNotAuth)
RcodeOther == 9
Rcodes == {RcodeSuccess, RcodeFormatError, RcodeServerFailure, RcodeNameError,
           RcodeNotImplemented, RcodeRefused, RcodeOther}

\* const ( gfxTimeout gfxInt = iota; gfxMaxAttempts; gfxArraySize )
gfxTimeout == 0
gfxMaxAttempts == 1
gfxArraySize == 2
\* const ( sfxExchangeError sfxInt = iota; ...; sfxArraySize )
sfxExchangeError == 0
sfxFormatError == 1
sfxServerFail == 2
sfxRefused == 3
sfxNotImplemented == 4
sfxOther == 5
sfxArraySize == 6
\* var sfx sfxInt = -1
sfxNone == -1
\* const ( evxTCPFallback = iota; evxTCPSuperior; evxArraySize )
evxTCPFallback == 0
evxTCPSuperior == 1
evxArraySize == 2

DNSTransportUDP == "udp"
DNSTransportTCP == "tcp"

\* The goroutines that call Resolve on the one local resolver.
Callers == 1..MaxCallers

\* What Exchange may return over the network net: an error, or a reply with any RCODE
\* and, over UDP, any TC flag; rtt is the time it took, in the seconds that Timeout
\* counts.
Exchanges(net) ==
    {[err |-> TRUE, Rcode |-> -1, Truncated |-> FALSE, net |-> net, rtt |-> d] :
        d \in 0..MaxRtt}
    \cup {[err |-> FALSE, Rcode |-> rc, Truncated |-> tc, net |-> net, rtt |-> d] :
             rc \in Rcodes, tc \in IF net = DNSTransportUDP THEN BOOLEAN ELSE {FALSE},
             d \in 0..MaxRtt}

\* No TCP exchange was made.
NoExchange == [err |-> FALSE, Rcode |-> -1, Truncated |-> FALSE, net |-> "none", rtt |-> 0]

\* A caller that is not in Resolve.
IdleResolve == [pc |-> "idle"]

\* maxAttemptsOf without regard to the number of name servers.
maxAttemptsConfigured(attemptsConfigured, len) == attemptsConfigured

\* maxAttempts of Resolve: no point trying a server more than once.
maxAttemptsOf(attemptsConfigured, len) ==
    IF attemptsConfigured > len THEN len ELSE attemptsConfigured

\* The variables of one pass of the loop of Resolve, before the pass has set them.
passStart ==
    [bsix |-> -1, udp |-> NoExchange, tcp |-> NoExchange, r |-> NoExchange, rtt |-> 0,
     tcpFallback |-> FALSE, tcpSuperior |-> FALSE,
     bsSuccess |-> FALSE, sfx |-> sfxNone, iterate |-> FALSE]

\* The local variables of Resolve when it enters its loop; asked lists the exchanges
\* the call has made, iterated is the sfx of the pass that asked for the present one,
\* ret is what the call returns.
startResolve(qTransport) ==
    [pc |-> "loop", attempts |-> 1,
     maxAttempts |-> maxAttemptsOf(resolverConfig.Attempts, serverCount),
     timeAvailable |-> resolverConfig.Timeout, timeUsed |-> 0,
     respMeta |-> [TransportType |-> qTransport, ResolutionDuration |-> 0,
                   QueryTries |-> 0, ServerTries |-> 0, FinalServerUsed |-> ""],
     pass |-> passStart, asked |-> <<>>, iterated |-> sfxNone, ret |-> "none"]

\* Fall back to TCP?
tcpFallbackDue(u) == ~u.err /\ u.Rcode = RcodeSuccess /\ u.Truncated

\* tcpSuperiorTo taking any TCP reply, whatever its RCODE.
tcpSuperiorAnyRcode(t) == ~t.err

\* Is the TCP reply superior to the UDP reply?
tcpSuperiorTo(t) == ~t.err /\ t.Rcode = RcodeSuccess

\* classify holding only a failed exchange against the server.
classifySparesServer(err, rcode) ==
    [bsSuccess |-> ~err,
     sfx |-> IF err THEN sfxExchangeError
             ELSE IF rcode \in {RcodeSuccess, RcodeNameError} THEN sfxNone
             ELSE sfxOther,
     iterate |-> err \/ rcode \in {RcodeServerFailure, RcodeRefused, RcodeNotImplemented}]

\* The switch of Resolve: what to tell bestServer, which failure to count, and whether
\* to iterate.
classify(err, rcode) ==
    IF err
    THEN [bsSuccess |-> FALSE, sfx |-> sfxExchangeError, iterate |-> TRUE]
    ELSE IF rcode = RcodeSuccess
    THEN [bsSuccess |-> TRUE, sfx |-> sfxNone, iterate |-> FALSE]
    ELSE IF rcode = RcodeFormatError
    THEN [bsSuccess |-> TRUE, sfx |-> sfxFormatError, iterate |-> FALSE]
    ELSE IF rcode = RcodeServerFailure
    THEN [bsSuccess |-> FALSE, sfx |-> sfxServerFail, iterate |-> TRUE]
    ELSE IF rcode = RcodeNameError
    THEN [bsSuccess |-> TRUE, sfx |-> sfxNone, iterate |-> FALSE]
    ELSE IF rcode = RcodeRefused
    THEN [bsSuccess |-> FALSE, sfx |-> sfxRefused, iterate |-> TRUE]
    ELSE IF rcode = RcodeNotImplemented
    THEN [bsSuccess |-> TRUE, sfx |-> sfxNotImplemented, iterate |-> TRUE]
    ELSE [bsSuccess |-> TRUE, sfx |-> sfxOther, iterate |-> FALSE]

\* One pass of the loop up to the exchanges: Best(), Exchange over UDP u and, on
\* fallback, Exchange over TCP t with the same server.
exchange(l, u, t) ==
    LET server == servers(serverCount)[bestIndex + 1]
        fallback == tcpFallbackDue(u)
        superior == fallback /\ tcpSuperiorTo(t)
    IN [l EXCEPT
          !.pc = "exchanged",
          !.respMeta.ServerTries = @ + 1,
          !.respMeta.FinalServerUsed = server,
          !.respMeta.TransportType = IF superior THEN DNSTransportTCP ELSE DNSTransportUDP,
          !.respMeta.QueryTries = @ + (IF fallback THEN 2 ELSE 1),
          !.pass.bsix = bestIndex,
          !.pass.udp = u,
          !.pass.tcp = t,
          !.pass.r = IF superior THEN t ELSE u,
          !.pass.rtt = u.rtt + (IF fallback THEN t.rtt ELSE 0),
          !.pass.tcpFallback = fallback,
          !.pass.tcpSuperior = superior,
          !.asked = IF fallback
                    THEN @ \o <<[server |-> server, net |-> DNSTransportUDP],
                                [server |-> server, net |-> DNSTransportTCP]>>
                    ELSE Append(@, [server |-> server, net |-> DNSTransportUDP])]

\* outOfTime once the time available is used up, not only when it is exceeded.
outOfTimeAtLimit(timeUsed, timeAvailable) == timeUsed >= timeAvailable

\* Whether Resolve has run out of time to iterate.
outOfTime(timeUsed, timeAvailable) == timeUsed > timeAvailable

\* The rest of the pass: the switch, the time used, and how the pass ends. A pass that
\* iterates leaves its variables behind; a pass that returns keeps them on record.
conclude(l) ==
    LET k == classify(l.pass.udp.err, l.pass.r.Rcode)
        used == l.timeUsed + l.pass.rtt
        l1 == [l EXCEPT !.pass.bsSuccess = k.bsSuccess, !.pass.sfx = k.sfx,
                        !.pass.iterate = k.iterate, !.timeUsed = used]
    IN IF ~k.iterate
       THEN [l1 EXCEPT !.pc = "done", !.ret = "reply", !.respMeta.ResolutionDuration = used]
       ELSE IF outOfTime(used, l.timeAvailable)
       THEN [l1 EXCEPT !.pc = "done", !.ret = "Query timeout"]
       ELSE IF l.attempts + 1 > l.maxAttempts
       THEN [l1 EXCEPT !.pc = "done", !.ret = "Query attempts exceeded",
                       !.attempts = @ + 1]
       ELSE [l1 EXCEPT !.pc = "loop", !.attempts = @ + 1, !.pass = passStart,
                       !.iterated = k.sfx]

ZeroBestServerStats ==
    [success |-> 0, events |-> [evx \in 0..(evxArraySize - 1) |-> 0],
     failures |-> [sfx \in 0..(sfxArraySize - 1) |-> 0], latency |-> 0]

ZeroResolverStats ==
    [success |-> 0, failures |-> [gfx \in 0..(gfxArraySize - 1) |-> 0], totalLatency |-> 0]

countServerEvents(events, tcpFallback, tcpSuperior) ==
    [evx \in 0..(evxArraySize - 1) |->
        IF (evx = evxTCPFallback /\ tcpFallback) \/ (evx = evxTCPSuperior /\ tcpSuperior)
        THEN events[evx] + 1 ELSE events[evx]]

\* The statistics of the resolver: those of the resolver and those of each name server.
statsNow == [resolverStats |-> resolverStats, bsList |-> bsList]

addServerSuccess(st, bsix, tcpFallback, tcpSuperior, latency) ==
    [st EXCEPT !.resolverStats.totalLatency = @ + latency,
               !.bsList[bsix].success = @ + 1,
               !.bsList[bsix].events = countServerEvents(@, tcpFallback, tcpSuperior),
               !.bsList[bsix].latency = @ + latency]

addServerFailure(st, bsix, tcpFallback, tcpSuperior, sfx) ==
    [st EXCEPT !.bsList[bsix].failures[sfx] = @ + 1,
               !.bsList[bsix].events = countServerEvents(@, tcpFallback, tcpSuperior)]

addGeneralSuccess(st) == [st EXCEPT !.resolverStats.success = @ + 1]

addGeneralFailure(st, gfx) == [st EXCEPT !.resolverStats.failures[gfx] = @ + 1]

\* Resolve calls that have returned, and calls under way.
resolvesReturned ==
    resolverStats.success + resolverStats.failures[gfxTimeout]
        + resolverStats.failures[gfxMaxAttempts]
resolvesUnderWay ==
    Cardinality({c \in DOMAIN resolve : resolve[c].pc \in {"loop", "exchanged"}})

\* New: a resolv.conf with n name servers, kept in a traditional bestserver.
InitLocal ==
    /\ \E n \in 1..MaxLocalServers :
          /\ NewManager(TraditionalAlgorithm, n)
          /\ bsList = [ix \in 0..(n - 1) |-> ZeroBestServerStats]
    /\ resolverConfig \in [Attempts : 1..MaxAttempts, Timeout : 1..MaxTimeout]
    /\ resolverStats = ZeroResolverStats
    /\ resolve = [c \in Callers |-> IdleResolve]
    /\ NoLoop /\ NoOutage /\ NoProxy /\ NoDaemon /\ NoLater

\* local.Resolve from its entry, or from the head of its loop, to the return of the
\* exchanges of one attempt.
ResolveExchange(c) ==
    /\ resolve[c].pc \in {"idle", "loop"}
    /\ resolve[c].pc = "idle" => resolvesReturned + resolvesUnderWay < MaxResolves
    /\ \E qTransport \in {DNSTransportUDP, DNSTransportTCP}, u \in Exchanges(DNSTransportUDP) :
          \E t \in IF tcpFallbackDue(u) THEN Exchanges(DNSTransportTCP) ELSE {NoExchange} :
             LET l == IF resolve[c].pc = "idle" THEN startResolve(qTransport)
                      ELSE resolve[c]
             IN /\ resolve[c].pc = "loop" => qTransport = DNSTransportUDP
                /\ resolve' = [resolve EXCEPT ![c] = exchange(l, u, t)]
    /\ call' = BestCall
    /\ UNCHANGED <<resolverConfig, resolverStats, bsList>>
    /\ UNCHANGED <<algType, serverCount, mgrVars, clock, loopVars, results, proxyVars, daemonVars, laterVars>>

\* local.Resolve from the switch on the outcome to the next pass of the loop or the
\* return.
ResolveResult(c) ==
    /\ resolve[c].pc = "exchanged"
    /\ LET l == resolve[c]
           p == l.pass
           l2 == conclude(l)
           k == classify(p.udp.err, p.r.Rcode)
           server == servers(serverCount)[p.bsix + 1]
           st1 == IF k.sfx = sfxNone
                  THEN addServerSuccess(statsNow, p.bsix, p.tcpFallback, p.tcpSuperior, p.rtt)
                  ELSE addServerFailure(statsNow, p.bsix, p.tcpFallback, p.tcpSuperior, k.sfx)
           st2 == IF l2.ret = "reply" THEN addGeneralSuccess(st1)
                  ELSE IF l2.ret = "Query timeout" THEN addGeneralFailure(st1, gfxTimeout)
                  ELSE IF l2.ret = "Query attempts exceeded"
                  THEN addGeneralFailure(st1, gfxMaxAttempts)
                  ELSE st1
       IN /\ resolve' = [resolve EXCEPT ![c] = l2]
          /\ call' = ResultCall(server, k.bsSuccess)
          /\ ResultBecomes(server, k.bsSuccess, p.rtt)
          /\ resolverStats' = st2.resolverStats
          /\ bsList' = st2.bsList
    /\ UNCHANGED <<resolverConfig>>
    /\ UNCHANGED <<algType, serverCount, clock, loopVars, results, proxyVars, daemonVars, laterVars>>

\* Resolve has returned and its caller has taken the return values.
ResolveDone(c) ==
    /\ resolve[c].pc = "done"
    /\ resolve' = [resolve EXCEPT ![c] = IdleResolve]
    /\ UNCHANGED <<resolverConfig, resolverStats, bsList>>
    /\ UNCHANGED <<algType, serverCount, mgrVars, clock, call, loopVars, results, proxyVars, daemonVars, laterVars>>

NextLocal == \E c \in Callers : ResolveExchange(c) \/ ResolveResult(c) \/ ResolveDone(c)

SpecLocal == InitLocal /\ [][NextLocal]_vars

\* ------------------------------------- start and shutdown of the daemons (SpecDaemon)

ProxyProgram == "trustydns-proxy"
ServerProgram == "trustydns-server"

\* stopChannel = make(chan os.Signal, 4)
stopChannelSize == 4

\* The signals given to signal.Notify: SIGUSR1 asks for a status report, the others end
\* the main loop.
Signals == {"SIGTERM", "SIGUSR1"}

Listeners == DOMAIN listener

\* cap(errorChannel): one place for each listener.
errorChannelSize == Cardinality(Listeners)

\* The process runs: main has neither returned fatal(err) nor reached its end.
processRuns == mainPc \in {"Running", "Stopping", "Waiting"}

\* A send on errorChannel can proceed: the buffer has room (nothing receives from it
\* but the select of the main loop, which MainError models).
canSend == Len(errorChannel) < errorChannelSize

\* mainExecute from the start of the listeners to the main loop. The proxy has called
\* Constrain itself before the loop; the DoH server has left it to a goroutine that
\* sleeps first.
InitDaemon ==
    /\ daemon \in {ProxyProgram, ServerProgram}
    /\ \E n \in 1..MaxListeners :
          /\ listener = [i \in 1..n |-> "serving"]
          /\ stopAsked = [i \in 1..n |-> FALSE]
          /\ wg = n
    /\ errorChannel = <<>>
    /\ mainPc = "Running"
    /\ constrain = IF daemon = ServerProgram THEN "sleeping" ELSE "none"
    /\ stopChannel = <<>>
    /\ signals = 0
    /\ NewManager(LatencyAlgorithm, 1)
    /\ NoLoop /\ NoOutage /\ NoProxy /\ NoLocal /\ NoLater

\* The operating system delivers a signal: signal.Notify sends it to stopChannel
\* without blocking, and drops it when the buffer is full.
Signal ==
    /\ processRuns
    /\ signals < MaxSignals
    /\ signals' = signals + 1
    /\ \E s \in Signals :
          stopChannel' = IF Len(stopChannel) < stopChannelSize
                         THEN Append(stopChannel, s) ELSE stopChannel
    /\ UNCHANGED <<daemon, listener, stopAsked, errorChannel, wg, mainPc, constrain>>
    /\ UNCHANGED <<algType, serverCount, mgrVars, clock, call, loopVars, results,
                   proxyVars, localVars, laterVars>>

\* The main loop: case s := <-stopChannel
MainSignal ==
    /\ mainPc = "Running"
    /\ stopChannel # <<>>
    /\ stopChannel' = Tail(stopChannel)
    /\ mainPc' = IF Head(stopChannel) = "SIGUSR1" THEN "Running" ELSE "Stopping"
    /\ UNCHANGED <<daemon, listener, stopAsked, errorChannel, wg, constrain, signals>>
    /\ UNCHANGED <<algType, serverCount, mgrVars, clock, call, loopVars, results,
                   proxyVars, localVars, laterVars>>

\* The main loop: case err := <-errorChannel: return fatal(err)
MainError ==
    /\ mainPc = "Running"
    /\ errorChannel # <<>>
    /\ errorChannel' = Tail(errorChannel)
    /\ mainPc' = "Fatal"
    /\ UNCHANGED <<daemon, listener, stopAsked, wg, constrain, stopChannel, signals>>
    /\ UNCHANGED <<algType, serverCount, mgrVars, clock, call, loopVars, results,
                   proxyVars, localVars, laterVars>>

\* Shutting down: for _, s := range servers { s.stop() }, one server at a time
MainStop ==
    /\ mainPc = "Stopping"
    /\ LET next == {i \in Listeners : ~stopAsked[i]}
       IN IF next = {}
          THEN mainPc' = "Waiting" /\ UNCHANGED stopAsked
          ELSE /\ stopAsked' = [stopAsked EXCEPT ![CHOOSE i \in next : \A j \in next : i <= j] = TRUE]
               /\ UNCHANGED mainPc
    /\ UNCHANGED <<daemon, listener, errorChannel, wg, constrain, stopChannel, signals>>
    /\ UNCHANGED <<algType, serverCount, mgrVars, clock, call, loopVars, results,
                   proxyVars, localVars, laterVars>>

\* wg.Wait() returns and main runs to its end.
MainWait ==
    /\ mainPc = "Waiting"
    /\ wg = 0
    /\ mainPc' = "Exited"
    /\ UNCHANGED <<daemon, listener, stopAsked, errorChannel, wg, constrain, stopChannel,
                   signals>>
    /\ UNCHANGED <<algType, serverCount, mgrVars, clock, call, loopVars, results,
                   proxyVars, localVars, laterVars>>

\* server.start's goroutine: ListenAndServe returns, after a shutdown request or with
\* an error of its own.
ListenAndServeReturns(i) ==
    /\ processRuns
    /\ listener[i] = "serving"
    /\ listener' = [listener EXCEPT ![i] = "returned"]
    /\ UNCHANGED <<daemon, stopAsked, errorChannel, wg, mainPc, constrain, stopChannel,
                   signals>>
    /\ UNCHANGED <<algType, serverCount, mgrVars, clock, call, loopVars, results,
                   proxyVars, localVars, laterVars>>

\* server.start's goroutine: errorChan <- (what ListenAndServe returned)
ListenerSends(i) ==
    /\ processRuns
    /\ listener[i] = "returned"
    /\ canSend
    /\ errorChannel' = Append(errorChannel, i)
    /\ listener' = [listener EXCEPT ![i] = "sent"]
    /\ UNCHANGED <<daemon, stopAsked, wg, mainPc, constrain, stopChannel, signals>>
    /\ UNCHANGED <<algType, serverCount, mgrVars, clock, call, loopVars, results,
                   proxyVars, localVars, laterVars>>

\* server.start's goroutine: wg.Done()
ListenerDone(i) ==
    /\ processRuns
    /\ listener[i] = "sent"
    /\ wg' = wg - 1
    /\ listener' = [listener EXCEPT ![i] = "done"]
    /\ UNCHANGED <<daemon, stopAsked, errorChannel, mainPc, constrain, stopChannel,
                   signals>>
    /\ UNCHANGED <<algType, serverCount, mgrVars, clock, call, loopVars, results,
                   proxyVars, localVars, laterVars>>

\* The goroutine of the DoH server's mainExecute: the sleep is over and
\* osutil.Constrain returns, with or without an error.
ConstrainReturns ==
    /\ processRuns
    /\ constrain = "sleeping"
    /\ constrain' \in {"failed", "done"}
    /\ UNCHANGED <<daemon, listener, stopAsked, errorChannel, wg, mainPc, stopChannel,
                   signals>>
    /\ UNCHANGED <<algType, serverCount, mgrVars, clock, call, loopVars, results,
                   proxyVars, localVars, laterVars>>

\* The same goroutine: errorChannel <- err
ConstrainSends ==
    /\ processRuns
    /\ constrain = "failed"
    /\ canSend
    /\ errorChannel' = Append(errorChannel, 0)
    /\ constrain' = "done"
    /\ UNCHANGED <<daemon, listener, stopAsked, wg, mainPc, stopChannel, signals>>
    /\ UNCHANGED <<algType, serverCount, mgrVars, clock, call, loopVars, results,
                   proxyVars, localVars, laterVars>>

NextDaemon ==
    \/ Signal \/ MainSignal \/ MainError \/ MainStop \/ MainWait
    \/ ConstrainReturns \/ ConstrainSends
    \/ \E i \in Listeners : ListenAndServeReturns(i) \/ ListenerSends(i) \/ ListenerDone(i)

SpecDaemon == InitDaemon /\ [][NextDaemon]_vars

\* ------------------------------------------------ the DoH server's serveDoH (SpecServe)

\* ser = Server ERror index into the DoH server's failure counter array
serBadContentType == 0
serBadMethod == 1
serBadPrefixLengths == 2
serBadQueryParamDecode == 3
serBodyReadError == 4
serClientTLSBad == 5
serDNSPackResponseFailed == 6
serDNSUnpackRequestFailed == 7
serECSSynthesisFailed == 8
serHTTPWriterFailed == 9
serLocalResolutionFailed == 10
serQueryParamMissing == 11
serArraySize == 12

\* ev = EVent index into the DoH server's eventCounters
evGet == 0
evTsig == 1
evEDNS0Removed == 2
evECSv4Synth == 3
evECSv6Synth == 4
evPadding == 5
dohEvListSize == 6

MaximumViableDNSMessage == 65535
Rfc8467ServerPadModulo == 468

StatusOK == 200
StatusBadRequest == 400
StatusMethodNotAllowed == 405
StatusUnsupportedMediaType == 415
StatusServiceUnavailable == 503

\* EDNS0 sub-options of an OPT RR.
EDNS0SUBNET == "SUBNET"
EDNS0PADDING == "PADDING"
EDNS0COOKIE == "COOKIE"

\* The ECS a client put in its query, the PADDING option of a client, and an option
\* that is neither.
ClientECS == [Code |-> EDNS0SUBNET, Family |-> 1, SourceNetmask |-> 16, Address |-> "client"]
ZeroPadding == [Code |-> EDNS0PADDING, Padding |-> 0]
Cookie == [Code |-> EDNS0COOKIE]
ClientOptions == {ClientECS, ZeroPadding, Cookie}

SeqsUpTo(S, n) == UNION {[1..k -> S] : k \in 0..n}

\* The resource records of the Extra section: OPT RRs, a TSIG and one of another type.
OPT(options) == [Rrtype |-> "OPT", Option |-> options]
TSIG == [Rrtype |-> "TSIG"]
ExtraRRs == {OPT(o) : o \in SeqsUpTo(ClientOptions, MaxOption)} \cup {TSIG}
Extras == SeqsUpTo(ExtraRRs, MaxExtra)

\* dns.Msg.IsTsig: the last RR of Extra is a TSIG.
IsTsig(extra) == Len(extra) > 0 /\ extra[Len(extra)].Rrtype = "TSIG"

isOPT(rr) == rr.Rrtype = "OPT"

hasOption(rr, code) == isOPT(rr) /\ \E k \in 1..Len(rr.Option) : rr.Option[k].Code = code

\* dnsutil.FindOPT: the index of the first OPT RR of Extra, 0 for nil.
FindOPT(extra) ==
    IF \E i \in 1..Len(extra) : isOPT(extra[i])
    THEN CHOOSE i \in 1..Len(extra) : isOPT(extra[i]) /\ \A j \in 1..(i - 1) : ~isOPT(extra[j])
    ELSE 0

\* dnsutil.FindECS: the ECS sub-options of every OPT RR of Extra, in order (the source
\* returns the first of them).
FindECS(extra) ==
    LET RECURSIVE options(_)
        options(i) ==
            IF i > Len(extra) THEN <<>>
            ELSE (IF isOPT(extra[i])
                  THEN SelectSeq(extra[i].Option, LAMBDA o : o.Code = EDNS0SUBNET)
                  ELSE <<>>) \o options(i + 1)
    IN options(1)

\* dnsutil.FindPadding: the length of the first PADDING sub-option, else -1.
FindPadding(extra) ==
    LET RECURSIVE find(_)
        find(i) ==
            IF i > Len(extra) THEN -1
            ELSE IF hasOption(extra[i], EDNS0PADDING)
                 THEN LET pads == SelectSeq(extra[i].Option, LAMBDA o : o.Code = EDNS0PADDING)
                      IN pads[1].Padding
                 ELSE find(i + 1)
    IN find(1)

\* dnsutil.RemoveEDNS0FromOPT: the survivors replace Extra only if something was removed;
\* an OPT RR left with no option is not among the survivors.
RemoveEDNS0FromOPT(extra, edns0Code) ==
    LET removed == \E i \in 1..Len(extra) : hasOption(extra[i], edns0Code)
        RECURSIVE outRRs(_)
        outRRs(i) ==
            IF i > Len(extra) THEN <<>>
            ELSE IF ~isOPT(extra[i]) THEN <<extra[i]>> \o outRRs(i + 1)
            ELSE LET survivors == SelectSeq(extra[i].Option, LAMBDA o : o.Code # edns0Code)
                 IN (IF Len(survivors) > 0 THEN <<[extra[i] EXCEPT !.Option = survivors]>> ELSE <<>>)
                        \o outRRs(i + 1)
    IN IF removed THEN outRRs(1) ELSE extra

\* dnsutil.CreateECS: the sub-option is appended to the first OPT RR, or to a new OPT RR
\* appended to Extra.
CreateECS(extra, family, prefixLength, ip) ==
    LET ecs == [Code |-> EDNS0SUBNET, Family |-> family, SourceNetmask |-> prefixLength,
                Address |-> ip]
        optRR == FindOPT(extra)
    IN IF optRR = 0
       THEN Append(extra, OPT(<<ecs>>))
       ELSE [extra EXCEPT ![optRR].Option = Append(@, ecs)]

\* Message IDs.
Ids == 0..MaxId

NoMsg == [Id |-> -1, Extra |-> <<>>]

\* The queries of DoH requests.
Queries == [Id : Ids, Extra : Extras]

\* The X-trustydns-Synth header as the tokens between its slashes; a token that is not
\* a number is -1. The empty sequence is the absent header.
NoSynthHeader == <<>>
SynthHeaders == {NoSynthHeader, <<0, 0>>, <<24, 0>>, <<0, 64>>, <<24, 64>>, <<33, 64>>}

\* http.Request.RemoteAddr: an IPv4 peer, an IPv6 peer, and one that does not parse.
PeerIPv4 == "192.0.2.1:4321"
PeerIPv6 == "[2001:db8::1]:4321"
PeerUnparsed == "192.0.2.1"
RemoteAddrs == {PeerIPv4, PeerIPv6, PeerUnparsed}

\* http.Request.URL.Query(): the values of each parameter named in the URL, in the order
\* they are given. A value is the base64url text of the query, or text that is no base64.
Rfc8484QueryParam == "dns"
QueryValue == "base64url"
NotBase64 == "zubzub"
urlValues(names, values) == [name \in names |-> values]
dnsOnly == urlValues({Rfc8484QueryParam}, <<QueryValue>>)
UnacceptedQueryParams ==
    {urlValues({}, <<>>), urlValues({"wrongQP"}, <<"">>),
     urlValues({"qp2", Rfc8484QueryParam}, <<QueryValue>>),
     urlValues({Rfc8484QueryParam}, <<NotBase64>>),
     urlValues({Rfc8484QueryParam}, <<NotBase64, QueryValue>>)}
RepeatedQueryParams ==
    {urlValues({Rfc8484QueryParam}, <<QueryValue, QueryValue>>),
     urlValues({Rfc8484QueryParam}, <<QueryValue, NotBase64>>)}

\* DoH requests that pass every validation, and one request for each way of failing it.
GoodRequests ==
    [Method : {"POST", "GET"}, ContentType : {"application/dns-message"}, BodyReads : {TRUE},
     QueryParam : {dnsOnly}, Unpacks : {TRUE}, Query : Queries, Synth : SynthHeaders,
     RemoteAddr : RemoteAddrs]
aRequest ==
    [Method |-> "POST", ContentType |-> "application/dns-message", BodyReads |-> TRUE,
     QueryParam |-> dnsOnly, Unpacks |-> TRUE, Query |-> [Id |-> 1, Extra |-> <<>>],
     Synth |-> NoSynthHeader, RemoteAddr |-> PeerIPv4]
BadRequests ==
    {[aRequest EXCEPT !.Method = "PUT"],
     [aRequest EXCEPT !.ContentType = "text/plain"],
     [aRequest EXCEPT !.BodyReads = FALSE],
     [aRequest EXCEPT !.Unpacks = FALSE]}
    \cup {[aRequest EXCEPT !.Method = "GET", !.QueryParam = qp] :
              qp \in UnacceptedQueryParams}
RepeatedRequests ==
    {[aRequest EXCEPT !.Method = "GET", !.QueryParam = qp] : qp \in RepeatedQueryParams}
Requests == GoodRequests \cup BadRequests \cup RepeatedRequests

\* The DoH server's configurations: a prefix length option given on the command line
\* sets ecsSet, so that without ecsSet the lengths are the defaults.
DohConfigs ==
    [ecsRemove : BOOLEAN, ecsSet : {TRUE}, ecsSetIPv4PrefixLen : {0, 24},
     ecsSetIPv6PrefixLen : {0, 64}]
    \cup [ecsRemove : BOOLEAN, ecsSet : {FALSE}, ecsSetIPv4PrefixLen : {24},
          ecsSetIPv6PrefixLen : {64}]

\* What t.local.Resolve returns: an error or a reply.
ResolveError == [err |-> TRUE, msg |-> NoMsg]
LocalReplies == [Id : Ids, Extra : {<<>>, <<OPT(<<ZeroPadding>>)>>}]
ResolveOutcomes == {ResolveError} \cup {[err |-> FALSE, msg |-> m] : m \in LocalReplies}

\* What dns.Msg.Len() says of a reply that is about to be packed.
MsgLens == {Rfc8467ServerPadModulo - 1, Rfc8467ServerPadModulo}

\* dns.Msg.Pack(): it fails, it gives as many bytes as Len() said, or it gives another
\* number of bytes.
PackOutcomes == {"error", "as Len", "not as Len"}

NoBody == [err |-> FALSE, len |-> 0, msg |-> NoMsg]

\* dns.Msg.Pack()
Pack(msg, mLen, packs) ==
    IF packs = "error" THEN [err |-> TRUE, len |-> 0, msg |-> NoMsg]
    ELSE [err |-> FALSE, len |-> IF packs = "as Len" THEN mLen ELSE mLen + 1, msg |-> msg]

\* dnsutil.PadAndPack from the OPT RR on: at is the place of the OPT RR that takes the
\* padding, mLen is msg.Len() once the empty PADDING option is in place.
padAndPackAt(msg, extra, at, moduloSize, extraPadding, mLen, packs) ==
    Pack([msg EXCEPT !.Extra =
              [extra EXCEPT ![at].Option =
                   Append(@, [Code |-> EDNS0PADDING,
                              Padding |-> IF extraPadding > 0 THEN extraPadding ELSE 0])]],
         mLen + extraPadding, packs)

\* PadAndPack trusting Len(): what Pack() gave is returned as it is.
padAndPackUnchecked(packed, moduloSize) == packed
\* dnsutil.PadAndPack, the check of the packed length.
padAndPackChecked(packed, moduloSize) ==
    IF packed.err \/ packed.len % moduloSize # 0
    THEN [err |-> TRUE, len |-> 0, msg |-> NoMsg]
    ELSE packed

\* dnsutil.PadAndPack once any PADDING has been removed from Extra.
padAndPackStripped(msg, stripped, optRR, moduloSize, mLen, packs) ==
    padAndPackChecked(
        padAndPackAt(msg, IF optRR = 0 THEN Append(stripped, OPT(<<>>)) ELSE stripped,
                     IF optRR = 0 THEN Len(stripped) + 1 ELSE optRR,
                     moduloSize, moduloSize - (mLen % moduloSize), mLen, packs),
        moduloSize)

\* dnsutil.PadAndPack looking for the OPT RR to use.
padAndPackFrom(msg, stripped, moduloSize, mLen, packs) ==
    padAndPackStripped(msg, stripped, IF Len(stripped) > 0 THEN FindOPT(stripped) ELSE 0,
                       moduloSize, mLen, packs)

\* dnsutil.PadAndPack
PadAndPack(msg, moduloSize, mLen, packs) ==
    IF moduloSize < 1 \/ moduloSize > MaximumViableDNSMessage
    THEN [err |-> TRUE, len |-> 0, msg |-> NoMsg]
    ELSE padAndPackFrom(msg,
                        IF Len(msg.Extra) > 0
                        THEN RemoveEDNS0FromOPT(msg.Extra, EDNS0PADDING) ELSE msg.Extra,
                        moduloSize, mLen, packs)

\* extractPrefixLengths: the two lengths, or an error.
extractPrefixLengths(requestData) ==
    IF Len(requestData) # 2 THEN [err |-> TRUE, ipv4 |-> 0, ipv6 |-> 0]
    ELSE IF \E k \in 1..2 : requestData[k] < 0 \/ requestData[k] > 255
         THEN [err |-> TRUE, ipv4 |-> 0, ipv6 |-> 0]
    ELSE IF requestData[1] > 32 \/ requestData[2] > 128
         THEN [err |-> TRUE, ipv4 |-> 0, ipv6 |-> 0]
    ELSE [err |-> FALSE, ipv4 |-> requestData[1], ipv6 |-> requestData[2]]

\* parseRemoteAddr, with what net.IP.To4() and To16() say of the address: To16() is not
\* nil for any valid address, To4() for an IPv4 one.
parseRemoteAddr(ra) ==
    IF ra = PeerIPv4 THEN [err |-> FALSE, ip |-> "192.0.2.1", To4 |-> TRUE, To16 |-> TRUE]
    ELSE IF ra = PeerIPv6 THEN [err |-> FALSE, ip |-> "2001:db8::1", To4 |-> FALSE, To16 |-> TRUE]
    ELSE [err |-> TRUE, ip |-> "", To4 |-> FALSE, To16 |-> FALSE]

\* server.synthesizeECS once the prefix lengths and the peer's address are at hand: evx
\* (zero unless a case of the switch sets it), serx, whether errMsg is set, and Extra
\* of dnsQ.
synthesizeFrom(extra, given, addr) ==
    IF given.err
    THEN [evx |-> 0, serx |-> serBadPrefixLengths, errMsg |-> TRUE, extra |-> extra]
    ELSE IF addr.err
    THEN [evx |-> 0, serx |-> serECSSynthesisFailed, errMsg |-> TRUE, extra |-> extra]
    ELSE IF addr.To4 /\ given.ipv4 > 0
    THEN [evx |-> evECSv4Synth, serx |-> 0, errMsg |-> FALSE,
          extra |-> CreateECS(extra, 1, given.ipv4, addr.ip)]
    ELSE IF addr.To16 /\ given.ipv6 > 0
    THEN [evx |-> evECSv6Synth, serx |-> 0, errMsg |-> FALSE,
          extra |-> CreateECS(extra, 2, given.ipv6, addr.ip)]
    ELSE [evx |-> 0, serx |-> 0, errMsg |-> FALSE, extra |-> extra]

\* server.synthesizeECS
synthesizeECS(extra, ecsRequestData, remoteAddr, cfg) ==
    synthesizeFrom(extra,
                   IF Len(ecsRequestData) > 0
                   THEN extractPrefixLengths(ecsRequestData)
                   ELSE [err |-> FALSE, ipv4 |-> cfg.ecsSetIPv4PrefixLen,
                         ipv6 |-> cfg.ecsSetIPv6PrefixLen],
                   parseRemoteAddr(remoteAddr))

NoDohEvents == [ix \in 0..(dohEvListSize - 1) |-> FALSE]

\* What serveDoH did with a request: the HTTP status, the failure counted (-1 for none),
\* the events, the query given to t.local.Resolve, and the way the reply was turned
\* into the body.
failed(req, status, serx, evs) ==
    [pc |-> "returned", req |-> req, status |-> status, serx |-> serx, evs |-> evs,
     resolved |-> FALSE,
     forwarded |-> NoMsg, reply |-> NoMsg, packing |-> "none", body |-> NoBody]

\* server.validateRequest
validateRequest(req) ==
    IF req.Method # "POST" /\ req.Method # "GET"
    THEN [serx |-> serBadMethod, hsc |-> StatusMethodNotAllowed, errMsg |-> TRUE]
    ELSE IF req.ContentType # "application/dns-message"
    THEN [serx |-> serBadContentType, hsc |-> StatusUnsupportedMediaType, errMsg |-> TRUE]
    ELSE IF ~req.BodyReads
    THEN [serx |-> serBodyReadError, hsc |-> StatusBadRequest, errMsg |-> TRUE]
    ELSE [serx |-> 0, hsc |-> 0, errMsg |-> FALSE]

\* base64.URLEncoding.DecodeString gives no error
decodes(value) == value # NotBase64

\* server.decodeQueryParam: len(qp) is the number of parameter names, and of the values
\* of dns the first is decoded.
decodeQueryParam(req) ==
    IF Rfc8484QueryParam \notin DOMAIN req.QueryParam
    THEN [serx |-> serQueryParamMissing, errMsg |-> TRUE]
    ELSE IF Cardinality(DOMAIN req.QueryParam) # 1
    THEN [serx |-> serQueryParamMissing, errMsg |-> TRUE]
    ELSE IF ~decodes(req.QueryParam[Rfc8484QueryParam][1])
    THEN [serx |-> serBadQueryParamDecode, errMsg |-> TRUE]
    ELSE [serx |-> 0, errMsg |-> FALSE]

\* Expunging only on --ecs-remove.
expungesOnRemove(req, cfg) == cfg.ecsRemove

\* serveDoH: Expunge any pre-existing ECS OPT?
expunges(req, cfg) == cfg.ecsRemove \/ Len(req.Synth) > 0 \/ cfg.ecsSet

\* serveDoH's "if msgIsMutable" block from FindPadding on.
mutatePadding(evs, extra, addServerPadding) ==
    [errMsg |-> FALSE, serx |-> 0,
     evs |-> IF addServerPadding >= 0 THEN [evs EXCEPT ![evPadding] = TRUE] ELSE evs,
     extra |-> IF addServerPadding >= 0 THEN RemoveEDNS0FromOPT(extra, EDNS0PADDING) ELSE extra,
     addServerPadding |-> addServerPadding]

\* serveDoH's "if msgIsMutable" block from the return of synthesizeECS on.
mutateSynth(evs, synth) ==
    IF synth.errMsg
    THEN [errMsg |-> TRUE, serx |-> synth.serx, evs |-> evs, extra |-> synth.extra,
          addServerPadding |-> -1]
    ELSE mutatePadding(IF synth.evx >= 0 THEN [evs EXCEPT ![synth.evx] = TRUE] ELSE evs,
                       synth.extra, FindPadding(synth.extra))

\* serveDoH's "if msgIsMutable" block from the call of synthesizeECS on.
mutateExpunged(req, cfg, evs, extra) ==
    mutateSynth(evs,
                IF Len(req.Synth) > 0 \/ cfg.ecsSet
                THEN synthesizeECS(extra, req.Synth, req.RemoteAddr, cfg)
                ELSE [evx |-> -1, serx |-> 0, errMsg |-> FALSE, extra |-> extra])

\* serveDoH's "if msgIsMutable" block: Extra of dnsQ after it, the events, and the
\* error of synthesizeECS if it made one.
mutateAlways(req, cfg, evs0) ==
    mutateExpunged(req, cfg,
                   IF expunges(req, cfg) THEN [evs0 EXCEPT ![evEDNS0Removed] = TRUE] ELSE evs0,
                   IF expunges(req, cfg)
                   THEN RemoveEDNS0FromOPT(req.Query.Extra, EDNS0SUBNET)
                   ELSE req.Query.Extra)

mutate(req, cfg, evs0) ==
    IF ~IsTsig(req.Query.Extra)
    THEN mutateAlways(req, cfg, [evs0 EXCEPT ![evTsig] = FALSE])
    ELSE [errMsg |-> FALSE, serx |-> 0, evs |-> [evs0 EXCEPT ![evTsig] = TRUE],
          extra |-> req.Query.Extra, addServerPadding |-> -1]

\* The choice between pad-and-pack and the plain pack.
padsReplyAlways(msgIsMutable, addServerPadding) == TRUE
padsReply(msgIsMutable, addServerPadding) == msgIsMutable /\ addServerPadding >= 0

\* serveDoH from the packing of the reply on.
respond(done, body, writes) ==
    IF body.err
    THEN [done EXCEPT !.status = StatusServiceUnavailable, !.serx = serDNSPackResponseFailed]
    ELSE IF ~writes
    THEN [done EXCEPT !.status = StatusServiceUnavailable, !.serx = serHTTPWriterFailed,
                      !.body = body]
    ELSE [done EXCEPT !.body = body]

\* serveDoH from the return of t.local.Resolve on.
resolved(req, m, dnsQ, res, pads, mLen, packs, writes) ==
    IF res.err
    THEN [failed(req, StatusServiceUnavailable, serLocalResolutionFailed, m.evs)
             EXCEPT !.forwarded = dnsQ]
    ELSE respond([pc |-> "returned", req |-> req, status |-> StatusOK, serx |-> -1,
                  evs |-> m.evs, resolved |-> TRUE, forwarded |-> dnsQ, reply |-> res.msg,
                  packing |-> IF pads THEN "PadAndPack" ELSE "Pack", body |-> NoBody],
                 IF pads
                 THEN PadAndPack([res.msg EXCEPT !.Id = req.Query.Id], Rfc8467ServerPadModulo,
                                 mLen, packs)
                 ELSE Pack([res.msg EXCEPT !.Id = req.Query.Id], mLen, packs),
                 writes)

\* serveDoH from "Determine whether we can mutate the message" on.
unpacked(req, m, newId, res, mLen, packs, writes) ==
    IF m.errMsg THEN failed(req, StatusBadRequest, m.serx, m.evs)
    ELSE resolved(req, m,
                  [Id |-> IF req.Query.Id = 0 THEN newId ELSE req.Query.Id, Extra |-> m.extra],
                  res, padsReply(~IsTsig(req.Query.Extra), m.addServerPadding),
                  mLen, packs, writes)

\* serveDoH from the decoding of the request on.
validated(req, cfg, evs0, d, newId, res, mLen, packs, writes) ==
    IF req.Method = "GET" /\ d.errMsg THEN failed(req, StatusBadRequest, d.serx, evs0)
    ELSE IF ~req.Unpacks THEN failed(req, StatusBadRequest, serDNSUnpackRequestFailed, evs0)
    ELSE unpacked(req, mutate(req, cfg, evs0), newId, res, mLen, packs, writes)

\* serveDoH from the return of validateRequest on.
received(req, cfg, v, newId, res, mLen, packs, writes) ==
    IF v.errMsg THEN failed(req, v.hsc, v.serx, NoDohEvents)
    ELSE validated(req, cfg,
                   IF req.Method = "GET" THEN [NoDohEvents EXCEPT ![evGet] = TRUE]
                   ELSE NoDohEvents,
                   decodeQueryParam(req), newId, res, mLen, packs, writes)

\* server.serveDoH: newId is what dns.Id() gives, res what t.local.Resolve returns, mLen
\* and packs what the reply's Len() and Pack() do, writes whether writer.Write succeeds.
serveDoH(req, cfg, newId, res, mLen, packs, writes) ==
    received(req, cfg, validateRequest(req), newId, res, mLen, packs, writes)

ZeroDohStats ==
    [successCount |-> 0,
     eventCounters |-> [ix \in 0..(dohEvListSize - 1) |-> 0],
     failureCounters |-> [ix \in 0..(serArraySize - 1) |-> 0]]

dohCountEvents(counters, evs) ==
    [ix \in DOMAIN counters |-> IF evs[ix] THEN counters[ix] + 1 ELSE counters[ix]]

\* server.addSuccessStats of the DoH server (totalLatency is left out: the model has no
\* durations for it).
dohAddSuccessStats(st, evs) ==
    [st EXCEPT !.successCount = @ + 1, !.eventCounters = dohCountEvents(@, evs)]

\* server.addFailureStats of the DoH server
dohAddFailureStats(st, ix, evs) ==
    [st EXCEPT !.failureCounters[ix] = @ + 1, !.eventCounters = dohCountEvents(@, evs)]

dohRequests ==
    dohStats.successCount
    + dohStats.failureCounters[0] + dohStats.failureCounters[1] + dohStats.failureCounters[2]
    + dohStats.failureCounters[3] + dohStats.failureCounters[4] + dohStats.failureCounters[5]
    + dohStats.failureCounters[6] + dohStats.failureCounters[7] + dohStats.failureCounters[8]
    + dohStats.failureCounters[9] + dohStats.failureCounters[10] + dohStats.failureCounters[11]

NoServed == [pc |-> "idle"]

InitServe ==
    /\ dohConfig \in DohConfigs
    /\ dohStats = ZeroDohStats
    /\ doh = NoServed
    /\ NewManager(LatencyAlgorithm, 1)
    /\ NoLoop /\ NoOutage /\ NoProxy /\ NoLocal /\ NoDaemon /\ NoRemote
    /\ NoCounter /\ NoTracker /\ NoDnsutil

\* The router calls serveDoH for a request.
DoHRequest ==
    /\ doh.pc # "called"
    /\ dohRequests < MaxDohRequests
    /\ \E req \in Requests : doh' = [pc |-> "called", req |-> req]
    /\ UNCHANGED <<dohConfig, dohStats>>
    /\ UNCHANGED <<algType, serverCount, mgrVars, clock, call, loopVars, results,
                   proxyVars, localVars, daemonVars, remoteVars, counterVars,
                   trackerVars, dnsutilVars>>

\* The call of serveDoH, from the validation of the request to the statistics.
ServeDoH ==
    /\ doh.pc = "called"
    /\ \E newId \in Ids, res \in ResolveOutcomes, mLen \in MsgLens,
          packs \in PackOutcomes, writes \in BOOLEAN :
          /\ doh' = serveDoH(doh.req, dohConfig, newId, res, mLen, packs, writes)
          /\ dohStats' = IF doh'.serx >= 0
                         THEN dohAddFailureStats(dohStats, doh'.serx, doh'.evs)
                         ELSE dohAddSuccessStats(dohStats, doh'.evs)
    /\ UNCHANGED dohConfig
    /\ UNCHANGED <<algType, serverCount, mgrVars, clock, call, loopVars, results,
                   proxyVars, localVars, daemonVars, remoteVars, counterVars,
                   trackerVars, dnsutilVars>>

NextServe == DoHRequest \/ ServeDoH

SpecServe == InitServe /\ [][NextServe]_vars

\* ------------------------------------------- the DoH resolver's Resolve (SpecRemote)

\* dgx = Doh General error indeX into resolver errors array
dgxPackDNSQuery == 0
dgxRFFU == 1
dgxArraySize == 2

\* dex = Doh Error indeX into per-best-server errors array
dexCreateHTTPRequest == 0
dexDoRequest == 1
dexNonStatusOk == 2
dexResponseReadAll == 3
dexContentType == 4
dexUnpackDNSResponse == 5
dexArraySize == 6

Rfc8467ClientPadModulo == 128

\* Config.ECSSetCIDR: nil, an IPv4 network and an IPv6 network.
NoCIDR == [IP |-> "", To4 |-> FALSE, To16 |-> FALSE, maskSize |-> 0]
CIDRv4 == [IP |-> "10.11.0.0", To4 |-> TRUE, To16 |-> TRUE, maskSize |-> 16]
CIDRv6 == [IP |-> "2001:db8::", To4 |-> FALSE, To16 |-> TRUE, maskSize |-> 32]

\* Every Config of the ECS and transport settings.
AnyRemoteConfigs ==
    [UseGetMethod : BOOLEAN, GeneratePadding : BOOLEAN, ECSRedactResponse : BOOLEAN,
     ECSRemove : BOOLEAN, ECSRequestIPv4PrefixLen : {0, 17}, ECSRequestIPv6PrefixLen : {0, 53},
     ECSSetCIDR : {NoCIDR, CIDRv4, CIDRv6}]

\* doh.New returns a resolver and no error for this Config.
newAccepts(config) ==
    /\ config.UseGetMethod =>
          /\ config.ECSSetCIDR = NoCIDR
          /\ config.ECSRequestIPv4PrefixLen = 0 /\ config.ECSRequestIPv6PrefixLen = 0
    /\ config.ECSSetCIDR # NoCIDR =>
          /\ config.ECSRequestIPv4PrefixLen = 0 /\ config.ECSRequestIPv6PrefixLen = 0
          /\ config.ECSSetCIDR.To4 \/ config.ECSSetCIDR.To16
          /\ config.ECSSetCIDR.maskSize >= 0
          /\ config.ECSSetCIDR.maskSize <= (IF config.ECSSetCIDR.To4 THEN 32 ELSE 128)
    /\ config.ECSRequestIPv4PrefixLen >= 0 /\ config.ECSRequestIPv4PrefixLen <= 32
    /\ config.ECSRequestIPv6PrefixLen >= 0 /\ config.ECSRequestIPv6PrefixLen <= 128

RemoteConfigs == {config \in AnyRemoteConfigs : newAccepts(config)}

\* The fields doh.New derives from the Config.
httpMethod(config) == IF config.UseGetMethod THEN "GET" ELSE "POST"
ecsFamily(config) ==
    IF config.ECSSetCIDR = NoCIDR THEN 0 ELSE IF config.ECSSetCIDR.To4 THEN 1 ELSE 2
ecsPrefixLength(config) == config.ECSSetCIDR.maskSize
ecsIP(config) == config.ECSSetCIDR.IP

\* t.ecsRequestData, the tokens of fmt.Sprintf("%d/%d", ...): set for every Config.
ecsRequestDataOf(config) ==
    <<config.ECSRequestIPv4PrefixLen, config.ECSRequestIPv6PrefixLen>>

\* The queries given to Resolve: the opcode, the classes of the questions, the Extra
\* section with at most one sub-option in an OPT RR.
OpcodeQuery == "QUERY"
OpcodeUpdate == "UPDATE"
ClassINET == "IN"
ClassHESIOD == "HS"
QueryShapes ==
    {[Opcode |-> OpcodeQuery, Question |-> <<ClassINET>>],
     [Opcode |-> OpcodeQuery, Question |-> <<ClassHESIOD>>],
     [Opcode |-> OpcodeQuery, Question |-> <<ClassINET, ClassINET>>],
     [Opcode |-> OpcodeUpdate, Question |-> <<ClassINET>>]}
\* At most one OPT RR, of one or two distinct sub-options, then perhaps a TSIG.
RemoteOptions ==
    {<<ClientECS>>, <<ZeroPadding>>, <<ClientECS, ZeroPadding>>}
RemoteExtras ==
    {<<>>, <<TSIG>>} \cup {<<OPT(o)>> : o \in RemoteOptions}
        \cup {<<OPT(o), TSIG>> : o \in RemoteOptions}
RemoteQueries ==
    {[Id |-> id, Opcode |-> shape.Opcode, Question |-> shape.Question, Answer |-> <<>>,
      Extra |-> extra] : id \in Ids, shape \in QueryShapes, extra \in RemoteExtras}

\* Resolve's "special processing": a legitimate looking IN query that lacks a TSIG.
isINQuery(dnsQ) ==
    /\ dnsQ.Opcode = OpcodeQuery
    /\ Len(dnsQ.Question) = 1
    /\ dnsQ.Question[1] = ClassINET
    /\ ~IsTsig(dnsQ.Extra)

\* Resolve's local variables of the ECS rules, before the rules.
ecsStart(dnsQ, ecsPresent) ==
    [extra |-> dnsQ.Extra, originalECSRetained |-> TRUE, ecsRequestData |-> <<>>,
     ecsPresent |-> ecsPresent, ecsRemoved |-> FALSE, ecsSet |-> FALSE, ecsRequest |-> FALSE]

\* Rule 1. Remove any and all ECS options from the query
ecsRule1(config, r) ==
    IF config.ECSRemove /\ r.ecsPresent
    THEN [r EXCEPT !.extra = RemoveEDNS0FromOPT(r.extra, EDNS0SUBNET),
                   !.ecsRemoved = (RemoveEDNS0FromOPT(r.extra, EDNS0SUBNET) # r.extra),
                   !.originalECSRetained = FALSE,
                   !.ecsPresent = FALSE]
    ELSE r

\* Rule 2. If Set configured and no ECS present in the query then set configured ECS.
ecsRule2(config, r) ==
    IF config.ECSSetCIDR # NoCIDR /\ ~r.ecsPresent
    THEN [r EXCEPT !.extra = CreateECS(r.extra, ecsFamily(config), ecsPrefixLength(config),
                                       ecsIP(config)),
                   !.originalECSRetained = FALSE,
                   !.ecsSet = TRUE,
                   !.ecsPresent = TRUE]
    ELSE r

\* Rule 3. If ECS Request configured and no ECS present in the query then set HTTP
\* Synthesize request header.
ecsRule3(config, r) ==
    IF Len(ecsRequestDataOf(config)) > 0 /\ ~r.ecsPresent
    THEN [r EXCEPT !.ecsRequestData = ecsRequestDataOf(config),
                   !.originalECSRetained = FALSE,
                   !.ecsPresent = TRUE,
                   !.ecsRequest = TRUE]
    ELSE r

\* Resolve from its start to the end of the ECS rules.
ecsRules(config, dnsQ) ==
    IF isINQuery(dnsQ)
    THEN ecsRule3(config, ecsRule2(config,
             ecsRule1(config, ecsStart(dnsQ, FindECS(dnsQ.Extra) # <<>>))))
    ELSE ecsStart(dnsQ, FALSE)

\* "Msg ID SHOULD be zero for GET"
transportId(config, id) == IF httpMethod(config) = "GET" THEN 0 ELSE id

\* The serialisation of a query that is padded whatever the configuration says.
serializePadded(config, msg, mLen, packs) ==
    PadAndPack(msg, Rfc8467ClientPadModulo, mLen, packs)
\* The serialisation of the query; mLen and packs are what Len() and Pack() do.
serialize(config, msg, mLen, packs) ==
    IF config.GeneratePadding /\ ~IsTsig(msg.Extra)
    THEN PadAndPack(msg, Rfc8467ClientPadModulo, mLen, packs)
    ELSE Pack(msg, mLen, packs)

\* base64.URLEncoding.EncodeToString and the decoding of it.
EncodeToString(binary) == <<"base64url", binary>>
DecodeString(text) == text[2]

NoHTTPRequest ==
    [Method |-> "none", URL |-> "", dns |-> <<>>, Body |-> NoBody, Synth |-> NoSynthHeader]

\* The http.Request given to httpClient.Do.
httpRequest(config, url, binary, ecsRequestData, msgIsMutable) ==
    [Method |-> httpMethod(config),
     URL |-> url,
     dns |-> IF httpMethod(config) = "GET" THEN EncodeToString(binary) ELSE <<>>,
     Body |-> IF httpMethod(config) = "GET" THEN NoBody ELSE binary,
     Synth |-> IF Len(ecsRequestData) > 0 /\ msgIsMutable THEN ecsRequestData
               ELSE NoSynthHeader]

\* msg.Len() of the queries: one short of the client's padding modulo, and on it.
RemoteMsgLens == {Rfc8467ClientPadModulo - 1, Rfc8467ClientPadModulo}

\* The query as it is serialised: the transport Id and the Extra the ECS rules left.
transportMsg(config, dnsQ, r) ==
    [dnsQ EXCEPT !.Id = transportId(config, @), !.Extra = r.extra]

\* The Result() call of a Resolve, if it made one.
NoResult ==
    [called |-> FALSE, server |-> UnknownServer, success |-> FALSE, now |-> 0, latency |-> 0]

\* The replies of the DoH server: an Id of its own, three answers with their TTLs, an OPT
\* RR whose TTL field holds the DO flag, an ECS with or without a scope, padding, a TSIG.
ReplyECS(scope) ==
    [Code |-> EDNS0SUBNET, Family |-> 1, SourceNetmask |-> 16, Address |-> "client",
     SourceScope |-> scope]
RR(rrtype, ttl) == [Rrtype |-> rrtype, Ttl |-> ttl]
OptTtlDO == 2 ^ 15
ReplyOPT(options, ttl) == [Rrtype |-> "OPT", Option |-> options, Ttl |-> ttl]
ReplyAnswer == <<RR("A", 1), RR("A", 2), RR("A", 5)>>
ReplyExtras ==
    {<<>>, <<ReplyOPT(<<ReplyECS(0)>>, 0)>>,
     <<ReplyOPT(<<ReplyECS(24), ZeroPadding>>, OptTtlDO)>>,
     <<ReplyOPT(<<ReplyECS(24)>>, 0), RR("TSIG", 0)>>}
RemoteReplies == [Id : Ids, Answer : {ReplyAnswer}, Ns : {<<>>}, Extra : ReplyExtras]
NoRemoteReply == [Id |-> -1, Answer |-> <<>>, Ns |-> <<>>, Extra |-> <<>>]

\* The Age header of the response: absent, or a number of seconds.
NoAge == 0
AgeHeaders == {NoAge, 2}

\* What httpClient.Do and the reading of its response come to.
DoFailures ==
    {"transport error", "not 200", "ReadAll error", "content type", "short body",
     "Unpack error"}
DoOutcomes ==
    {[kind |-> k, reply |-> NoRemoteReply, age |-> NoAge] : k \in DoFailures}
        \cup {[kind |-> "ok", reply |-> m, age |-> a] : m \in RemoteReplies, a \in AgeHeaders}

\* reduceRRSet without the lower limit: the TTL after the subtraction is stored as it is.
reduceRRSetUnclamped(rrset, by, minimum) ==
    [i \in 1..Len(rrset) |->
        IF rrset[i].Ttl > minimum
        THEN [rrset[i] EXCEPT !.Ttl = @ - by]
        ELSE rrset[i]]

\* dnsutil.reduceRRSet: the header of every RR of the set, whatever its type, is taken
\* with rr.Header() and its Ttl reduced in 64-bit signed arithmetic.
reduceRRSet(rrset, by, minimum) ==
    [i \in 1..Len(rrset) |->
        IF rrset[i].Ttl > minimum
        THEN [rrset[i] EXCEPT !.Ttl = IF @ - by < minimum THEN minimum ELSE @ - by]
        ELSE rrset[i]]

\* dnsutil.ReduceTTL: the message after the call
ReduceTTL(msg, by, minimum) ==
    [msg EXCEPT !.Answer = IF Len(@) > 0 THEN reduceRRSet(@, by, minimum) ELSE @,
                !.Ns = IF Len(@) > 0 THEN reduceRRSet(@, by, minimum) ELSE @,
                !.Extra = IF Len(@) > 0 THEN reduceRRSet(@, by, minimum) ELSE @]

\* The number of RRs an RR set differs in from the set it was made of: the changeCount
\* of reduceRRSet.
changeCount(before, after) == Cardinality({i \in 1..Len(before) : after[i] # before[i]})

\* dnsutil.ReduceTTL: the value returned
reduceTTLCount(msg, by, minimum) ==
    changeCount(msg.Answer, ReduceTTL(msg, by, minimum).Answer)
        + changeCount(msg.Ns, ReduceTTL(msg, by, minimum).Ns)
        + changeCount(msg.Extra, ReduceTTL(msg, by, minimum).Extra)

\* The local variables of a Resolve call that the later steps and the caller see.
remoteCall(pcOf, dnsQ, mLen, packs, r, binary, request, bestURL, bsix, now, dgx, dex) ==
    [pc |-> pcOf, query |-> dnsQ, originalId |-> dnsQ.Id, mLen |-> mLen, packs |-> packs,
     rules |-> r, binary |-> binary, request |-> request, bestURL |-> bestURL,
     bsix |-> bsix, startTime |-> now, result |-> NoResult, dgx |-> dgx, dex |-> dex,
     ecsReturned |-> FALSE, httpR |-> NoRemoteReply, reply |-> NoRemoteReply,
     err |-> (dgx >= 0 \/ dex >= 0)]

\* Resolve from Best() to httpClient.Do: parses is whether http.NewRequest accepts the
\* URL.
resolveRequest(config, dnsQ, r, binary, mLen, packs, parses, best, now) ==
    IF binary.err
    THEN remoteCall("returned", dnsQ, mLen, packs, r, binary, NoHTTPRequest, UnknownServer,
                    -1, now, dgxPackDNSQuery, -1)
    ELSE IF ~parses
    THEN remoteCall("returned", dnsQ, mLen, packs, r, binary, NoHTTPRequest, best.server,
                    best.index, now, -1, dexCreateHTTPRequest)
    ELSE remoteCall("sent", dnsQ, mLen, packs, r, binary,
                    httpRequest(config, best.server, binary, r.ecsRequestData,
                                ~IsTsig(dnsQ.Extra)),
                    best.server, best.index, now, -1, -1)

\* Resolve from the serialisation on.
resolvePacked(config, dnsQ, r, mLen, packs, parses, best, now) ==
    resolveRequest(config, dnsQ, r,
                   serialize(config, transportMsg(config, dnsQ, r), mLen, packs),
                   mLen, packs, parses, best, now)

\* Resolve up to httpClient.Do.
resolveSends(config, dnsQ, mLen, packs, parses, best, now) ==
    resolvePacked(config, dnsQ, ecsRules(config, dnsQ), mLen, packs, parses, best, now)

\* A failure after the Result() call.
responseFails(s, dex) == [s EXCEPT !.pc = "returned", !.dex = dex, !.err = TRUE]

\* The transport error of httpClient.Do without a Result() call.
transportFailureUnreported(s, now) ==
    [s EXCEPT !.pc = "returned", !.dex = dexDoRequest, !.err = TRUE]
\* The transport error of httpClient.Do.
transportFailure(s, now) ==
    [s EXCEPT !.pc = "returned", !.dex = dexDoRequest, !.err = TRUE,
              !.result = [called |-> TRUE, server |-> s.bestURL, success |-> FALSE,
                          now |-> now, latency |-> 0]]

\* "Adjust down TTL by Age", unless the reply is signed.
aged(httpR, age) ==
    IF ~IsTsig(httpR.Extra) /\ age # NoAge /\ age > 0 THEN ReduceTTL(httpR, age, 1) ELSE httpR

\* "Are we expecting an ECS response to be returned?"
ecsIsReturned(ecsPresent, extra) ==
    /\ ecsPresent
    /\ FindECS(extra) # <<>>
    /\ FindECS(extra)[1].SourceScope > 0

\* The Id of the reply as the upstream gave it.
restoredIdOfReply(originalId, httpR) == httpR.Id
\* "recover original ID in case this was zeroed for GET"
restoredId(originalId, httpR) == originalId

\* "remove returned padding if we generated query padding"
unpadded(config, extra) ==
    IF config.GeneratePadding THEN RemoveEDNS0FromOPT(extra, EDNS0PADDING) ELSE extra

\* "conditionally redact ECS if we synthesized or modified original"
redacted(config, originalECSRetained, extra) ==
    IF ~originalECSRetained /\ config.ECSRedactResponse
    THEN RemoveEDNS0FromOPT(extra, EDNS0SUBNET) ELSE extra

\* The reply modified "to more closely match the query".
matched(config, s, httpR) ==
    [httpR EXCEPT !.Id = restoredId(s.originalId, httpR),
                  !.Extra = IF ~IsTsig(httpR.Extra)
                            THEN unpadded(config,
                                          redacted(config, s.rules.originalECSRetained, @))
                            ELSE @]

\* Resolve from the unpacked reply on.
resolveReply(config, s, asUnpacked, httpR) ==
    [s EXCEPT !.pc = "returned",
              !.ecsReturned = ecsIsReturned(s.rules.ecsPresent, httpR.Extra),
              !.httpR = asUnpacked,
              !.reply = matched(config, s, httpR)]

\* Resolve from the check of the status on.
resolveResponse(config, s, outcome) ==
    IF outcome.kind = "not 200" THEN responseFails(s, dexNonStatusOk)
    ELSE IF outcome.kind = "ReadAll error" THEN responseFails(s, dexResponseReadAll)
    ELSE IF outcome.kind = "content type" THEN responseFails(s, dexContentType)
    ELSE IF outcome.kind = "short body" THEN responseFails(s, dexContentType)
    ELSE IF outcome.kind = "Unpack error" THEN responseFails(s, dexUnpackDNSResponse)
    ELSE resolveReply(config, s, outcome.reply, aged(outcome.reply, outcome.age))

\* Resolve from the return of httpClient.Do on.
resolveReturns(config, s, outcome, now) ==
    IF outcome.kind = "transport error"
    THEN transportFailure(s, now)
    ELSE resolveResponse(config,
                         [s EXCEPT !.result =
                              [called |-> TRUE, server |-> s.bestURL, success |-> TRUE,
                               now |-> now, latency |-> now - s.startTime]],
                         outcome)

\* bestServer{} of the resolver's bsList
ZeroBestServer ==
    [success |-> 0, totalLatency |-> 0, ecsRemoved |-> 0, ecsSet |-> 0, ecsRequest |-> 0,
     ecsReturned |-> 0, failures |-> [dex \in 0..(dexArraySize - 1) |-> 0]]

ZeroRemoteStats(n) ==
    [failures |-> [dgx \in 0..(dgxArraySize - 1) |-> 0],
     bsList |-> [ix \in 0..(n - 1) |-> ZeroBestServer]]

count(b) == IF b THEN 1 ELSE 0

\* remote.addSuccessStats
remoteAddSuccessStats(st, s) ==
    [st EXCEPT !.bsList[s.bsix] =
        [@ EXCEPT !.success = @ + 1,
                  !.totalLatency = @ + s.result.latency,
                  !.ecsRemoved = @ + count(s.rules.ecsRemoved),
                  !.ecsSet = @ + count(s.rules.ecsSet),
                  !.ecsRequest = @ + count(s.rules.ecsRequest),
                  !.ecsReturned = @ + count(s.ecsReturned)]]

\* remote.remoteAddGeneralFailure
remoteAddGeneralFailure(st, dgx) == [st EXCEPT !.failures[dgx] = @ + 1]

\* remote.remoteAddServerFailure
remoteAddServerFailure(st, bsIX, dex) == [st EXCEPT !.bsList[bsIX].failures[dex] = @ + 1]

\* The statistics once the call s has returned.
remoteAddStats(st, s) ==
    IF s.pc # "returned" THEN st
    ELSE IF s.dgx >= 0 THEN remoteAddGeneralFailure(st, s.dgx)
    ELSE IF s.dex >= 0 THEN remoteAddServerFailure(st, s.bsix, s.dex)
    ELSE remoteAddSuccessStats(st, s)

RECURSIVE sumTo(_, _)
sumTo(f, n) == IF n < 0 THEN 0 ELSE f[n] + sumTo(f, n - 1)

\* The Resolve calls that have returned.
remoteResolves ==
    sumTo(remoteStats.failures, dgxArraySize - 1)
        + sumTo([ix \in 0..(serverCount - 1) |->
                    remoteStats.bsList[ix].success
                        + sumTo(remoteStats.bsList[ix].failures, dexArraySize - 1)],
                serverCount - 1)

NoRemoteCall == [pc |-> "idle"]

InitRemote ==
    /\ remoteConfig \in RemoteConfigs
    /\ NewManager(LatencyAlgorithm, MaxServers)
    /\ remoteStats = ZeroRemoteStats(serverCount)
    /\ remote = NoRemoteCall
    /\ NoLoop /\ NoOutage /\ NoProxy /\ NoLocal /\ NoDaemon /\ NoServe
    /\ NoCounter /\ NoTracker /\ NoDnsutil

\* Resolve is called and runs up to httpClient.Do, or to the failure before it.
RemoteResolveSend ==
    /\ remote.pc \in {"idle", "returned"}
    /\ remoteResolves < MaxRemoteResolves
    /\ \E dnsQ \in RemoteQueries, mLen \in RemoteMsgLens, packs \in PackOutcomes,
          parses \in BOOLEAN :
          /\ remote' = resolveSends(remoteConfig, dnsQ, mLen, packs, parses, BestCall, clock)
          /\ call' = IF remote'.bsix >= 0 THEN BestCall ELSE call
          /\ remoteStats' = remoteAddStats(remoteStats, remote')
    /\ UNCHANGED remoteConfig
    /\ UNCHANGED <<algType, serverCount, mgrVars, clock, loopVars, results, proxyVars,
                   localVars, daemonVars, serveVars, counterVars, trackerVars,
                   dnsutilVars>>

\* Time passes while httpClient.Do is under way.
RemoteTick ==
    /\ remote.pc = "sent"
    /\ clock - remote.startTime < MaxRemoteDuration
    /\ clock' = clock + 1
    /\ UNCHANGED <<remoteConfig, remoteStats, remote>>
    /\ UNCHANGED <<algType, serverCount, mgrVars, call, loopVars, results, proxyVars,
                   localVars, daemonVars, serveVars, counterVars, trackerVars,
                   dnsutilVars>>

\* httpClient.Do returns and Resolve runs to its end.
RemoteResolveReturn ==
    /\ remote.pc = "sent"
    /\ \E outcome \in DoOutcomes :
          /\ remote' = resolveReturns(remoteConfig, remote, outcome, clock)
          /\ remoteStats' = remoteAddStats(remoteStats, remote')
          /\ call' = ResultCall(remote'.result.server, remote'.result.success)
          /\ ResultBecomes(remote'.result.server, remote'.result.success,
                           remote'.result.latency)
    /\ UNCHANGED remoteConfig
    /\ UNCHANGED <<algType, serverCount, clock, loopVars, results, proxyVars,
                   localVars, daemonVars, serveVars, counterVars, trackerVars,
                   dnsutilVars>>

NextRemote == RemoteResolveSend \/ RemoteTick \/ RemoteResolveReturn

SpecRemote == InitRemote /\ [][NextRemote]_vars

\* ------------------------------------- concurrencytracker.Counter (SpecCounter)

\* var cct Counter
ZeroCounter == [current |-> 0, peak |-> 0]

\* Counter.Add: the counter after the call and the value returned.
counterAdd(t) ==
    [current |-> t.current + 1,
     peak |-> IF t.current + 1 > t.peak THEN t.current + 1 ELSE t.peak,
     increased |-> t.current + 1 > t.peak]

\* Done without its test of current.
counterDoneUnchecked(t) ==
    [current |-> t.current - 1, peak |-> t.peak, panic |-> FALSE]
\* Counter.Done: the counter after the call and whether the call panicked.
counterDone(t) ==
    IF t.current = 0
    THEN [current |-> t.current, peak |-> t.peak, panic |-> TRUE]
    ELSE [current |-> t.current - 1, peak |-> t.peak, panic |-> FALSE]

\* Peak resetting the peak to zero.
counterPeakToZero(t, resetCounters) ==
    [current |-> t.current, peak |-> IF resetCounters THEN 0 ELSE t.peak,
     returned |-> t.peak]
\* Counter.Peak: the counter after the call and the value returned.
counterPeak(t, resetCounters) ==
    [current |-> t.current, peak |-> IF resetCounters THEN t.current ELSE t.peak,
     returned |-> t.peak]

\* The last call on record: the counter it found, its argument, what it returned.
counterCall(op, was, resetCounters, increased, panic, returned) ==
    [op |-> op, was |-> was, resetCounters |-> resetCounters, increased |-> increased,
     panic |-> panic, returned |-> returned]
NoCounterCall == counterCall("none", ZeroCounter, FALSE, FALSE, FALSE, 0)

InitCounter ==
    /\ counter = ZeroCounter
    /\ counted = NoCounterCall
    /\ NewManager(LatencyAlgorithm, 1)
    /\ NoLoop /\ NoOutage /\ NoProxy /\ NoLocal /\ NoDaemon /\ NoServe /\ NoRemote
    /\ NoTracker /\ NoDnsutil

\* cct.Add() by any goroutine
CounterAdd ==
    /\ counter.current < MaxConcurrency
    /\ counter' = [current |-> counterAdd(counter).current, peak |-> counterAdd(counter).peak]
    /\ counted' = counterCall("Add", counter, FALSE, counterAdd(counter).increased, FALSE, 0)
    /\ UNCHANGED <<algType, serverCount, mgrVars, clock, call, loopVars, results, proxyVars,
                   localVars, daemonVars, serveVars, remoteVars, trackerVars,
                   dnsutilVars>>

\* cct.Done() by any goroutine; a panic is recovered by the caller.
CounterDone ==
    /\ counter' = [current |-> counterDone(counter).current,
                   peak |-> counterDone(counter).peak]
    /\ counted' = counterCall("Done", counter, FALSE, FALSE, counterDone(counter).panic, 0)
    /\ UNCHANGED <<algType, serverCount, mgrVars, clock, call, loopVars, results, proxyVars,
                   localVars, daemonVars, serveVars, remoteVars, trackerVars,
                   dnsutilVars>>

\* cct.Peak(resetCounters) by the reporter
CounterPeak ==
    /\ \E resetCounters \in BOOLEAN :
          /\ counter' = [current |-> counterPeak(counter, resetCounters).current,
                         peak |-> counterPeak(counter, resetCounters).peak]
          /\ counted' = counterCall("Peak", counter, resetCounters, FALSE, FALSE,
                                    counterPeak(counter, resetCounters).returned)
    /\ UNCHANGED <<algType, serverCount, mgrVars, clock, call, loopVars, results, proxyVars,
                   localVars, daemonVars, serveVars, remoteVars, trackerVars,
                   dnsutilVars>>

NextCounter == CounterAdd \/ CounterDone \/ CounterPeak

SpecCounter == InitCounter /\ [][NextCounter]_vars

\* ------------------------------------- connectiontracker.Tracker (SpecTracker)

errNoConnInMap == 0
errNoConnForSession == 1
errDanglingConn == 2
errNegativeConcurrency == 3
errConnsLost == 4
errUnknownState == 5
errArSize == 6

\* http.ConnState, and a value net/http does not define
StateNew == 0
StateActive == 1
StateIdle == 2
StateHijacked == 3
StateClosed == 4
StateUnknown == 100
ConnStates == {StateNew, StateActive, StateIdle, StateHijacked, StateClosed, StateUnknown}

\* The keys of the connections, and the place of a key that is not in connMap.
ConnKeys == {"one", "two"}
NoConn == [inMap |-> FALSE]

\* The zero time.Time{}
ZeroTime == 0

\* &connection{} with connStart set
newConnection(now) ==
    [inMap |-> TRUE, connStart |-> now, activeStart |-> ZeroTime, activeFor |-> 0,
     currentSessions |-> 0, peakSessions |-> 0]

\* trackerStats{}
ZeroTrackerStats ==
    [peakConns |-> 0, peakSessions |-> 0, connFor |-> 0, activeFor |-> 0,
     errors |-> [ix \in 0..(errArSize - 1) |-> 0]]

\* connectiontracker.New
NewTracker == [connMap |-> [key \in ConnKeys |-> NoConn], stats |-> ZeroTrackerStats]

\* len(t.connMap)
connCount(connMap) == Cardinality({key \in ConnKeys : connMap[key].inMap})

\* t.errors[ix]++ and return false
trackerFails(t, ix) ==
    [t |-> [t EXCEPT !.stats.errors[ix] = @ + 1], ok |-> FALSE]

\* ConnState for http.StateNew, once the new connection is in the map
connStateNewIn(t, ok) ==
    [t |-> [t EXCEPT !.stats.errors[errDanglingConn] = IF ok THEN @ + 1 ELSE @,
                     !.stats.peakConns = IF connCount(t.connMap) > @
                                         THEN connCount(t.connMap) ELSE @],
     ok |-> ~ok]

\* ConnState for http.StateNew
connStateNew(t, key, now) ==
    connStateNewIn([t EXCEPT !.connMap[key] = newConnection(now)], t.connMap[key].inMap)

\* The active period that ends at now, if the connection is active.
lastActive(cs, now) == IF cs.activeStart # ZeroTime THEN now - cs.activeStart ELSE 0

\* ConnState for http.StateHijacked and http.StateClosed, which does not look at the
\* sessions of the connection.
connStateClosedAnySessions(t, key, cs, now) ==
    [t |-> [t EXCEPT !.connMap[key] = NoConn,
                     !.stats.connFor = @ + (now - cs.connStart),
                     !.stats.activeFor = @ + cs.activeFor + lastActive(cs, now),
                     !.stats.peakSessions = IF cs.peakSessions > @ THEN cs.peakSessions ELSE @],
     ok |-> TRUE]
\* ConnState for http.StateHijacked and http.StateClosed
connStateClosed(t, key, cs, now) ==
    IF cs.currentSessions > 0
    THEN [t |-> [t EXCEPT !.connMap[key] = NoConn,
                          !.stats.connFor = @ + (now - cs.connStart),
                          !.stats.activeFor = @ + cs.activeFor + lastActive(cs, now),
                          !.stats.errors[errConnsLost] = @ + 1],
          ok |-> FALSE]
    ELSE [t |-> [t EXCEPT !.connMap[key] = NoConn,
                          !.stats.connFor = @ + (now - cs.connStart),
                          !.stats.activeFor = @ + cs.activeFor + lastActive(cs, now),
                          !.stats.peakSessions = IF cs.peakSessions > @
                                                 THEN cs.peakSessions ELSE @],
          ok |-> TRUE]

\* Tracker.ConnState: the tracker after the call and the value returned.
ConnState(t, key, now, state) ==
    IF state = StateNew THEN connStateNew(t, key, now)
    ELSE IF ~t.connMap[key].inMap THEN trackerFails(t, errNoConnInMap)
    ELSE IF state = StateActive
    THEN [t |-> [t EXCEPT !.connMap[key].activeStart = now], ok |-> TRUE]
    ELSE IF state = StateIdle
    THEN [t |-> [t EXCEPT !.connMap[key].activeFor = @ + lastActive(t.connMap[key], now),
                          !.connMap[key].activeStart = ZeroTime],
          ok |-> TRUE]
    ELSE IF state \in {StateHijacked, StateClosed}
    THEN connStateClosed(t, key, t.connMap[key], now)
    ELSE trackerFails(t, errUnknownState)

\* Tracker.SessionAdd
SessionAdd(t, key) ==
    IF ~t.connMap[key].inMap THEN trackerFails(t, errNoConnForSession)
    ELSE [t |-> [t EXCEPT !.connMap[key].currentSessions = @ + 1,
                          !.connMap[key].peakSessions =
                              IF t.connMap[key].currentSessions + 1 > @
                              THEN t.connMap[key].currentSessions + 1 ELSE @],
          ok |-> TRUE]

\* Tracker.SessionDone
SessionDone(t, key) ==
    IF ~t.connMap[key].inMap THEN trackerFails(t, errNoConnForSession)
    ELSE IF t.connMap[key].currentSessions <= 0
    THEN trackerFails(t, errNegativeConcurrency)
    ELSE [t |-> [t EXCEPT !.connMap[key].currentSessions = @ - 1], ok |-> TRUE]

\* Tracker.Report(true): the counters are reset, the connections stay.
trackerReset(t) == [t EXCEPT !.stats = ZeroTrackerStats]

\* The errors counted since the last reset.
trackerErrors == sumTo(tracker.stats.errors, errArSize - 1)

\* The last call on record.
trackerCall(op, key, state, ok) == [op |-> op, key |-> key, state |-> state, ok |-> ok]
NoTrackerCall == trackerCall("New", "", StateNew, TRUE)

InitTracker ==
    /\ tracker = NewTracker
    /\ tracked = NoTrackerCall
    /\ NewManager(LatencyAlgorithm, 1)
    /\ NoLoop /\ NoOutage /\ NoProxy /\ NoLocal /\ NoDaemon /\ NoServe /\ NoRemote
    /\ NoCounter /\ NoDnsutil

\* The http.Server reports a change of state of a connection, any state for any key.
TrackerConnState ==
    /\ trackerErrors < MaxTrackerErrors
    /\ \E key \in ConnKeys, state \in ConnStates :
          /\ tracker' = ConnState(tracker, key, clock, state).t
          /\ tracked' = trackerCall("ConnState", key, state,
                                    ConnState(tracker, key, clock, state).ok)
    /\ UNCHANGED <<algType, serverCount, mgrVars, clock, call, loopVars, results, proxyVars,
                   localVars, daemonVars, serveVars, remoteVars, counterVars,
                   dnsutilVars>>

\* A request handler begins.
TrackerSessionAdd ==
    /\ trackerErrors < MaxTrackerErrors
    /\ \E key \in ConnKeys :
          /\ tracker.connMap[key].inMap => tracker.connMap[key].currentSessions < MaxSessions
          /\ tracker' = SessionAdd(tracker, key).t
          /\ tracked' = trackerCall("SessionAdd", key, StateNew, SessionAdd(tracker, key).ok)
    /\ UNCHANGED <<algType, serverCount, mgrVars, clock, call, loopVars, results, proxyVars,
                   localVars, daemonVars, serveVars, remoteVars, counterVars,
                   dnsutilVars>>

\* A request handler ends.
TrackerSessionDone ==
    /\ trackerErrors < MaxTrackerErrors
    /\ \E key \in ConnKeys :
          /\ tracker' = SessionDone(tracker, key).t
          /\ tracked' = trackerCall("SessionDone", key, StateNew, SessionDone(tracker, key).ok)
    /\ UNCHANGED <<algType, serverCount, mgrVars, clock, call, loopVars, results, proxyVars,
                   localVars, daemonVars, serveVars, remoteVars, counterVars,
                   dnsutilVars>>

\* The reporter calls Report(true).
TrackerReport ==
    /\ tracker.stats # ZeroTrackerStats
    /\ tracker' = trackerReset(tracker)
    /\ tracked' = trackerCall("Report", "", StateNew, TRUE)
    /\ UNCHANGED <<algType, serverCount, mgrVars, clock, call, loopVars, results, proxyVars,
                   localVars, daemonVars, serveVars, remoteVars, counterVars,
                   dnsutilVars>>

\* Time passes between the calls.
TrackerTick ==
    /\ clock < MaxTrackerTime
    /\ clock' = clock + 1
    /\ UNCHANGED <<tracker, tracked>>
    /\ UNCHANGED <<algType, serverCount, mgrVars, call, loopVars, results, proxyVars,
                   localVars, daemonVars, serveVars, remoteVars, counterVars,
                   dnsutilVars>>

NextTracker ==
    TrackerConnState \/ TrackerSessionAdd \/ TrackerSessionDone \/ TrackerReport
        \/ TrackerTick

SpecTracker == InitTracker /\ [][NextTracker]_vars

\* ------------------------------------------- dnsutil.PadAndPack (SpecPad)

\* The moduloSize arguments: the ends of the range, each side of them, the two moduli
\* of RFC8467 and a small one.
PadModulos ==
    {0, 1, 3, Rfc8467ClientPadModulo, Rfc8467ServerPadModulo, MaximumViableDNSMessage,
     MaximumViableDNSMessage + 1}

\* msg.Len() once the empty PADDING option is in place: the smallest message with an
\* OPT RR, and lengths around the multiples of the moduli.
PadMsgLens ==
    {27, Rfc8467ClientPadModulo - 1, Rfc8467ClientPadModulo, Rfc8467ClientPadModulo + 1,
     Rfc8467ServerPadModulo, 2 * Rfc8467ServerPadModulo}

NoPadCall == [pc |-> "idle"]

InitPad ==
    /\ padded = NoPadCall
    /\ reduced = <<>>
    /\ NewManager(LatencyAlgorithm, 1)
    /\ NoLoop /\ NoOutage /\ NoProxy /\ NoLocal /\ NoDaemon /\ NoServe /\ NoRemote
    /\ NoCounter /\ NoTracker

\* PadAndPack is called with a message and a modulo.
PadAndPackCall ==
    /\ padded.pc = "idle"
    /\ \E msg \in Queries, moduloSize \in PadModulos, mLen \in PadMsgLens,
          packs \in PackOutcomes :
          padded' = [pc |-> "called", msg |-> msg, moduloSize |-> moduloSize,
                     mLen |-> mLen, packs |-> packs]
    /\ UNCHANGED reduced
    /\ UNCHANGED <<algType, serverCount, mgrVars, clock, call, loopVars, results, proxyVars,
                   localVars, daemonVars, serveVars, remoteVars, counterVars, trackerVars>>

\* PadAndPack returns.
PadAndPackReturn ==
    /\ padded.pc = "called"
    /\ padded' = [pc |-> "returned", msg |-> padded.msg, moduloSize |-> padded.moduloSize,
                  mLen |-> padded.mLen, packs |-> padded.packs,
                  out |-> PadAndPack(padded.msg, padded.moduloSize, padded.mLen,
                                     padded.packs)]
    /\ UNCHANGED reduced
    /\ UNCHANGED <<algType, serverCount, mgrVars, clock, call, loopVars, results, proxyVars,
                   localVars, daemonVars, serveVars, remoteVars, counterVars, trackerVars>>

NextPad == PadAndPackCall \/ PadAndPackReturn

SpecPad == InitPad /\ [][NextPad]_vars

\* ------------------------------------------------------------------ dnsutil.ReduceTTL
\* The messages handed to ReduceTTL: answers with TTLs around the limits, an authority
\* RR, and an additional section with or without an OPT pseudo-RR, whose TTL field holds
\* the extended RCODE, the version and the DO flag.
MaxTTLAnswers == 2
TTLBys == {0, 1, 2, 4, OptTtlDO + 1}
TTLMinimums == {0, 1, 3}
TTLAnswers == SeqsUpTo({RR("A", ttl) : ttl \in {0, 1, 3, 5}}, MaxTTLAnswers)
TTLAuthorities == {<<>>, <<RR("NS", 4)>>}
TTLExtras ==
    {<<>>, <<ReplyOPT(<<>>, 0)>>, <<ReplyOPT(<<ZeroPadding>>, OptTtlDO)>>,
     <<RR("A", 5), ReplyOPT(<<>>, OptTtlDO)>>}
TTLMessages == [Id : {0}, Answer : TTLAnswers, Ns : TTLAuthorities, Extra : TTLExtras]

NoReduceCall == [pc |-> "idle"]

InitTTL ==
    /\ reduced = NoReduceCall
    /\ padded = <<>>
    /\ NewManager(LatencyAlgorithm, 1)
    /\ NoLoop /\ NoOutage /\ NoProxy /\ NoLocal /\ NoDaemon /\ NoServe /\ NoRemote
    /\ NoCounter /\ NoTracker

\* A caller hands a message, by and minimum to ReduceTTL.
ReduceTTLCall ==
    /\ reduced.pc = "idle"
    /\ \E msg \in TTLMessages, by \in TTLBys, minimum \in TTLMinimums :
           reduced' = [pc |-> "called", msg |-> msg, by |-> by, minimum |-> minimum]
    /\ UNCHANGED padded
    /\ UNCHANGED <<algType, serverCount, mgrVars, clock, call, loopVars, results, proxyVars,
                   localVars, daemonVars, serveVars, remoteVars, counterVars, trackerVars>>

\* ReduceTTL returns: the message is changed in place and the count of changes returned.
ReduceTTLReturn ==
    /\ reduced.pc = "called"
    /\ reduced' = [pc |-> "returned", msg |-> reduced.msg, by |-> reduced.by,
                   minimum |-> reduced.minimum,
                   out |-> ReduceTTL(reduced.msg, reduced.by, reduced.minimum),
                   count |-> reduceTTLCount(reduced.msg, reduced.by, reduced.minimum)]
    /\ UNCHANGED padded
    /\ UNCHANGED <<algType, serverCount, mgrVars, clock, call, loopVars, results, proxyVars,
                   localVars, daemonVars, serveVars, remoteVars, counterVars, trackerVars>>

NextTTL == ReduceTTLCall \/ ReduceTTLReturn

SpecTTL == InitTTL /\ [][NextTTL]_vars

\* ------------------------------------------- local.Resolve, concurrent (SpecShared)
\* Several goroutines call Resolve on the one resolver and its one traditional server
\* set. Best() and Result() each run under the lock of the server set; between them, and
\* between the passes of the loop, the calls interleave. The exchanges are over UDP and
\* take no time; they fail or are answered NOERROR or SERVFAIL, so that every pass that
\* iterates has reported a failure of its server.
MaxSharedCallers == 2
MaxSharedResolves == 2
SharedCallers == 1..MaxSharedCallers
SharedExchanges ==
    {u \in Exchanges(DNSTransportUDP) :
        /\ u.rtt = 0
        /\ ~u.Truncated
        /\ u.err \/ u.Rcode \in {RcodeSuccess, RcodeServerFailure}}

InitShared ==
    /\ \E n \in 2..MaxLocalServers :
          /\ NewManager(TraditionalAlgorithm, n)
          /\ bsList = [ix \in 0..(n - 1) |-> ZeroBestServerStats]
    /\ resolverConfig \in [Attempts : 2..MaxAttempts, Timeout : {MaxTimeout}]
    /\ resolverStats = ZeroResolverStats
    /\ resolve = [c \in SharedCallers |-> IdleResolve]
    /\ NoLoop /\ NoOutage /\ NoProxy /\ NoDaemon /\ NoLater

\* local.Resolve of caller c from its entry, or from the head of its loop, to the return
\* of the exchange of one attempt.
SharedExchange(c) ==
    /\ resolve[c].pc \in {"idle", "loop"}
    /\ resolve[c].pc = "idle" => resolvesReturned + resolvesUnderWay < MaxSharedResolves
    /\ \E u \in SharedExchanges :
          resolve' = [resolve EXCEPT ![c] =
                         exchange(IF resolve[c].pc = "idle" THEN startResolve(DNSTransportUDP)
                                  ELSE resolve[c],
                                  u, NoExchange)]
    /\ call' = BestCall
    /\ UNCHANGED <<resolverConfig, resolverStats, bsList>>
    /\ UNCHANGED <<algType, serverCount, mgrVars, clock, loopVars, results, proxyVars, daemonVars, laterVars>>

NextShared ==
    \E c \in SharedCallers : SharedExchange(c) \/ ResolveResult(c) \/ ResolveDone(c)

SpecShared == InitShared /\ [][NextShared]_vars

\* ------------------------------------------------------------------ claims

\* The step is a Result() call (Tick moves the clock, Best() leaves a "Best" on record).
IsResultStep == call'.op = "Result" /\ clock' = clock

isLatency == algType = LatencyAlgorithm

\* C1: for both managers, two Best() calls with no Result() taking effect between them
\* return the same server and the same index.
C1_TwoBestsAgree ==
    [][(call.op = "Best" /\ call'.op = "Best")
         => (call'.server = call.server /\ call'.index = call.index)]_vars

\* Best() was called twice in a row while a sample server stood in for the real 'best'.
C1_Witness ==
    /\ call.op = "Best"
    /\ call.again
    /\ call.index = bestIndex
    /\ bestIndex # saveBestIndex

\* C2 as stated: in the latency manager a Result() naming a server other than the one
\* Best() returns never changes the value returned by Best().
C2_OtherResultKeepsBest ==
    [][(IsResultStep /\ isLatency /\ call'.index # bestIndex) => bestIndex' = bestIndex]_vars

\* C2 as amended: the value returned by Best() changes only in a Result() call; a
\* Result() naming a server other than the one Best() returns never reassesses
\* (saveBestIndex and bestExpires are left alone) and changes the value returned by
\* Best() only by sampling: to the next sample server, or back to saveBestIndex.
C2_OtherResultNeverReassesses ==
    [][/\ (isLatency /\ bestIndex' # bestIndex) => IsResultStep
       /\ (IsResultStep /\ isLatency /\ call'.index # bestIndex)
            => /\ saveBestIndex' = saveBestIndex
               /\ bestExpires' = bestExpires
               /\ bestIndex' \in {bestIndex, saveBestIndex,
                                  (sampleIndex + 1) % serverCount}]_vars

\* A Result() naming another server has changed what Best() returns.
C2_Witness ==
    /\ isLatency
    /\ call.op = "Result"
    /\ call.index # -1
    /\ call.index # call.was
    /\ bestIndex # call.was

\* C3 as stated: the server Best() returns is not one whose last Result was a failure
\* less than ResetFailedAfter ago, unless every server is marked failed.
C3_FailedServerNotBest ==
    (/\ isLatency
     /\ call.op = "Best"
     /\ stats[call.index].lastStatusWasFailure
     /\ clock < stats[call.index].lastStatusTime + ResetFailedAfter)
        => allFailed(stats, serverCount)

\* C3 as amended: a server marked failed at T stays marked until a success is reported
\* for it or a reassessment later than T + ResetFailedAfter rehabilitates it; while it
\* is marked, no reassessment makes it the new 'best' unless it found every server
\* marked failed (or there is one server only), and no sampling step makes it the sample.
C3_FailedServerNotSelected ==
    [][isLatency =>
        /\ \A ix \in 0..(serverCount - 1) :
              (stats[ix].lastStatusWasFailure /\ ~stats'[ix].lastStatusWasFailure)
                 => /\ IsResultStep
                    /\ \/ call'.index = ix /\ call'.success
                       \/ /\ call'.reassessed
                          /\ clock > stats[ix].lastStatusTime + ResetFailedAfter
        /\ (IsResultStep /\ call'.reassessed
              /\ reassessRationale' \notin {algAllBad, algOnlyOne})
              => ~stats'[saveBestIndex'].lastStatusWasFailure
        /\ (IsResultStep /\ call'.index # -1 /\ sampleIndex' # sampleIndex
              /\ bestIndex' = sampleIndex' /\ sampleCount' = 0)
              => ~stats'[bestIndex'].lastStatusWasFailure]_vars

\* A reassessment has passed over a server marked failed and chosen one that is not.
C3_Witness ==
    /\ isLatency
    /\ call.op = "Result"
    /\ call.reassessed
    /\ reassessRationale \in {algFirstCab, algSecondCab, algFastest}
    /\ \E ix \in 0..(serverCount - 1) :
          /\ stats[ix].lastStatusWasFailure
          /\ stats[ix].lastStatusTime + ResetFailedAfter >= clock
          /\ ix # call.index
    /\ ~stats[saveBestIndex].lastStatusWasFailure

\* C4 as stated: a successful Result() for the server Best() returns, with no
\* reassessment trigger, leaves the value returned by Best() unchanged.
C4_SuccessKeepsBest ==
    [][(/\ IsResultStep /\ isLatency
        /\ call'.index = bestIndex
        /\ call'.success
        /\ assessCount + 1 < ReassessCount
        /\ ~(clock > bestExpires))
          => bestIndex' = bestIndex]_vars

\* C4 as amended: such a Result() leaves the real 'best' (saveBestIndex) unchanged, and
\* the next Best() returns it unless this was the SampleOthersEvery-th Result() since
\* the last sample, when Best() returns the next sample server if that is not failing.
C4_SuccessKeepsRealBest ==
    [][(/\ IsResultStep /\ isLatency
        /\ call'.index = bestIndex
        /\ call'.success
        /\ assessCount + 1 < ReassessCount
        /\ ~(clock > bestExpires))
          => /\ saveBestIndex' = saveBestIndex
             /\ sampleCount + 1 < SampleOthersEvery => bestIndex' = saveBestIndex
             /\ sampleCount + 1 >= SampleOthersEvery
                  => bestIndex' \in {bestIndex, (sampleIndex + 1) % serverCount}]_vars

\* A success for the server Best() returned, without reassessment, after which Best()
\* still returns that server.
C4_Witness ==
    /\ isLatency
    /\ call.op = "Result"
    /\ call.success
    /\ call.index = call.was
    /\ ~call.reassessed
    /\ bestIndex = call.was
    /\ saveBestIndex = call.was

\* C5: with n >= 2 servers that all keep succeeding, a caller looping Best() then
\* Result(best, true) is handed every server: no server goes unreturned by Best() for
\* more than n * SampleOthersEvery Result() calls.
C5_EveryServerSampled ==
    pc # "none" =>
        \A ix \in 0..(serverCount - 1) : since[ix] <= serverCount * SampleOthersEvery

\* A server that is not the real 'best' has waited n * SampleOthersEvery Result() calls
\* and is the sample the next Best() returns.
C5_Witness ==
    /\ pc = "Best"
    /\ call.op = "Result"
    /\ serverCount >= 2
    /\ bestIndex # saveBestIndex
    /\ since[bestIndex] = serverCount * SampleOthersEvery

\* C6: with exactly two servers, after Result(best, false) the next Best() returns the
\* other server, unless that other server is marked failed.
C6_TwoServersFailover ==
    (/\ isLatency
     /\ serverCount = 2
     /\ call.op = "Result"
     /\ call.index = call.was
     /\ ~call.success
     /\ ~stats[1 - call.was].lastStatusWasFailure)
        => bestIndex = 1 - call.was

\* The 'best' of two servers was reported failed and Best() now returns the other.
C6_Witness ==
    /\ isLatency
    /\ serverCount = 2
    /\ call.op = "Result"
    /\ call.index = call.was
    /\ ~call.success
    /\ ~stats[1 - call.was].lastStatusWasFailure
    /\ bestIndex = 1 - call.was

\* No server of the collection is non-failing.
everyServerFailed == allFailed(stats, serverCount)

\* C7 as stated: with n >= 2 servers all marked failed, Result(best, false) moves the
\* value returned by Best() to index (best+1) mod n.
C7_AllBadMovesToNext ==
    [][(/\ IsResultStep /\ isLatency
        /\ serverCount >= 2
        /\ everyServerFailed
        /\ call'.index = bestIndex
        /\ ~call'.success)
          => bestIndex' = (bestIndex + 1) % serverCount]_vars

\* C7 as amended: such a Result() makes (best+1) mod n the real 'best' (saveBestIndex)
\* and the next Best() returns a server other than the one just reported: that next
\* server, or a server the same reassessment rehabilitated and the sampling step chose.
C7_AllBadRotates ==
    [][(/\ IsResultStep /\ isLatency
        /\ serverCount >= 2
        /\ everyServerFailed
        /\ call'.index = bestIndex
        /\ ~call'.success)
          => /\ saveBestIndex' = (bestIndex + 1) % serverCount
             /\ reassessRationale' = algAllBad
             /\ bestIndex' # bestIndex
             /\ bestIndex' # saveBestIndex'
                  => /\ stats[bestIndex'].lastStatusWasFailure
                     /\ ~stats'[bestIndex'].lastStatusWasFailure]_vars

\* Every server was failed and a further failure of the 'best' has moved it on.
C7_Witness ==
    /\ isLatency
    /\ serverCount >= 2
    /\ call.op = "Result"
    /\ ~call.success
    /\ call.index = call.was
    /\ call.reassessed
    /\ reassessRationale = algAllBad
    /\ everyServerFailed
    /\ bestIndex = (call.was + 1) % serverCount
    /\ results >= serverCount + 1

\* C8: in the traditional manager bestIndex changes only when a failure is reported for
\* the current 'best', and then becomes (bestIndex+1) mod n; a success, and a report
\* for any other server, leave it unchanged.
C8_TraditionalMovesOnBestFailure ==
    algType = TraditionalAlgorithm =>
        bestIndex = IF call.op = "Result" /\ call.index = call.was /\ ~call.success
                    THEN (call.was + 1) % serverCount
                    ELSE IF call.op = "New" THEN 0 ELSE call.was

\* The last server of the list failed as 'best' and the first server is 'best' again.
C8_Witness ==
    /\ algType = TraditionalAlgorithm
    /\ serverCount >= 2
    /\ call.op = "Result"
    /\ ~call.success
    /\ call.index = call.was
    /\ call.was = serverCount - 1
    /\ bestIndex = 0

\* Server ix is not failing and has a known weighted average.
knownGood(ix) == ~stats[ix].lastStatusWasFailure /\ stats[ix].weightedAverage # 0

\* C9: when the latency manager reassesses and some non-failing server has a known
\* average, the new 'best' is a non-failing server whose average is the lowest of the
\* non-failing servers with a known average.
C9_ReassessPicksFastest ==
    (/\ isLatency
     /\ call.op = "Result"
     /\ call.reassessed
     /\ \E ix \in 0..(serverCount - 1) : knownGood(ix))
        => /\ knownGood(saveBestIndex)
           /\ \A ix \in 0..(serverCount - 1) :
                 knownGood(ix)
                    => stats[saveBestIndex].weightedAverage <= stats[ix].weightedAverage

\* A reassessment has preferred a faster server to the first good one it found.
C9_Witness ==
    /\ isLatency
    /\ call.op = "Result"
    /\ call.reassessed
    /\ reassessRationale = algFastest
    /\ saveBestIndex > 0
    /\ knownGood(0)
    /\ stats[saveBestIndex].weightedAverage < stats[0].weightedAverage

\* C10: for every reply the proxy writes to a client, over UDP or TCP, truncated by the
\* proxy or not: if the reply obtained from the resolver had TC=1, the reply written
\* has TC=1.
C10_UpstreamTCPreserved ==
    (served # NoQuery /\ served.written /\ served.resp.Truncated)
        => served.out.Truncated

\* A reply that came with TC=1 went through Truncate, which dropped no record, and was
\* written to a UDP client with TC=1.
C10_Witness ==
    /\ served # NoQuery
    /\ served.written
    /\ served.resp.Truncated
    /\ mustTruncate(transport, served.payloadSize, served.opt)
    /\ rrCount(served.out) = rrCount(served.resp)
    /\ served.out.Truncated

\* max(512, the UDPSize of the OPT of the client's query)
clientLimit ==
    IF served.opt # NoOpt /\ served.opt > 512 THEN served.opt ELSE 512

\* ServeDNS has handed a reply of the resolver to WriteMsg, which wrote it.
replyWritten == served # NoQuery /\ ~served.err /\ served.written

C12_FittingReplyUnmodified ==
    (/\ served # NoQuery /\ ~served.err
     /\ \/ transport = DNSTCPTransport
        \/ transport = DNSUDPTransport /\ served.payloadSize <= clientLimit)
        => served.out = served.resp

\* A reply over 512 bytes, within the UDPSize of the query, was written as it came to a
\* UDP client.
C12_Witness ==
    /\ replyWritten
    /\ transport = DNSUDPTransport
    /\ served.payloadSize > 512
    /\ served.payloadSize <= clientLimit
    /\ rrCount(served.resp) = 3 * MaxRR
    /\ served.out = served.resp

\* C13: when the resolver returns an error ServeDNS writes no message, adds one to the
\* no-response failure counter and leaves the success counter alone.
C13_ResolverErrorNoReply ==
    [][(served = NoQuery /\ served' # NoQuery /\ served'.err)
         => /\ ~served'.written /\ ~served'.writeFailed
            /\ failureCounters' = [failureCounters EXCEPT ![serNoResponse] = @ + 1]
            /\ successCount' = successCount
            /\ totalLatency' = totalLatency]_vars

\* A resolver error followed a query that was answered.
C13_Witness ==
    /\ served # NoQuery
    /\ served.err
    /\ failureCounters[serNoResponse] = 1
    /\ successCount = 1

\* Caller c has returned from a Resolve whose last UDP reply had TC=1 and RCODE NoError.
fellBack(c) ==
    /\ resolve[c].pc = "done"
    /\ ~resolve[c].pass.udp.err
    /\ resolve[c].pass.udp.Rcode = RcodeSuccess
    /\ resolve[c].pass.udp.Truncated

\* After a UDP reply with TC=1 and NoError: the last two exchanges of the call went to
\* one server, over UDP then over TCP; the call returns the TCP reply with transport
\* TCP if the TCP exchange gave a NoError reply, else the UDP reply with transport UDP.
fallbackOutcome(c) ==
    LET l == resolve[c]
        p == l.pass
        n == Len(l.asked)
    IN /\ n >= 2
       /\ l.asked[n - 1] = [server |-> l.respMeta.FinalServerUsed, net |-> DNSTransportUDP]
       /\ l.asked[n] = [server |-> l.respMeta.FinalServerUsed, net |-> DNSTransportTCP]
       /\ \A i \in 1..(n - 2) : l.asked[i].net = DNSTransportUDP
       /\ l.ret = "reply"
       /\ IF ~p.tcp.err /\ p.tcp.Rcode = RcodeSuccess
          THEN p.r = p.tcp /\ p.r.net = DNSTransportTCP
               /\ l.respMeta.TransportType = DNSTransportTCP
          ELSE p.r = p.udp /\ p.r.Truncated
               /\ l.respMeta.TransportType = DNSTransportUDP

\* C14 as stated: a UDP reply with TC=1 and NoError makes Resolve query the same server
\* once more over TCP and return the TCP reply (transport TCP) if that gave NoError,
\* else the truncated UDP reply (transport UDP); in both cases QueryTries = 2 and
\* ServerTries = 1.
C14_FallbackTriesTwoAndOne ==
    \A c \in Callers :
        fellBack(c) => /\ fallbackOutcome(c)
                       /\ resolve[c].respMeta.QueryTries = 2
                       /\ resolve[c].respMeta.ServerTries = 1

\* C14 as amended: the same, with ServerTries the number of the attempt that fell back
\* and QueryTries one more (2 and 1 when the first attempt fell back).
C14_FallbackTriesOneMore ==
    \A c \in Callers :
        fellBack(c) => /\ fallbackOutcome(c)
                       /\ resolve[c].respMeta.ServerTries = resolve[c].attempts
                       /\ resolve[c].respMeta.QueryTries = resolve[c].attempts + 1

\* The second attempt of a call fell back to TCP, the TCP exchange failed and the
\* truncated UDP reply was returned.
C14_Witness ==
    \E c \in Callers :
        /\ fellBack(c)
        /\ resolve[c].attempts = 2
        /\ resolve[c].pass.tcp.err
        /\ resolve[c].pass.r = resolve[c].pass.udp
        /\ resolve[c].respMeta.TransportType = DNSTransportUDP

\* The servers caller c has sent the query to in its present Resolve call.
serversAsked(c) == {resolve[c].asked[i].server : i \in 1..Len(resolve[c].asked)}

\* The position in asked of the UDP exchange of the present pass of caller c.
passAsked(c) ==
    IF resolve[c].pass.tcpFallback THEN Len(resolve[c].asked) - 1 ELSE Len(resolve[c].asked)

\* C15: when a server answers NOTIMPL and attempts remain, the next attempt of the same
\* Resolve call is sent to a different server.
C15_NotImplNextServer ==
    \A c \in Callers :
        (/\ resolve[c].pc \in {"exchanged", "done"}
         /\ resolve[c].iterated = sfxNotImplemented)
            => resolve[c].asked[passAsked(c)].server
                   # resolve[c].asked[passAsked(c) - 1].server

\* A server answered NOTIMPL and the next attempt of the call asked that server again,
\* although the resolver has another name server.
C15_Witness ==
    \E c \in Callers :
        /\ resolve[c].pc = "exchanged"
        /\ resolve[c].iterated = sfxNotImplemented
        /\ serverCount >= 2
        /\ resolve[c].asked[passAsked(c)].server = resolve[c].asked[passAsked(c) - 1].server

\* C16: on every successful Resolve, ServerTries is the number of distinct servers the
\* call sent the query to.
C16_ServerTriesDistinct ==
    \A c \in Callers :
        (resolve[c].pc = "done" /\ resolve[c].ret = "reply")
            => resolve[c].respMeta.ServerTries = Cardinality(serversAsked(c))

\* A successful Resolve reports two servers tried and has asked one.
C16_Witness ==
    \E c \in Callers :
        /\ resolve[c].pc = "done"
        /\ resolve[c].ret = "reply"
        /\ resolve[c].respMeta.ServerTries = 2
        /\ Cardinality(serversAsked(c)) = 1

\* min(Attempts, number of configured name servers)
attemptsAllowed ==
    IF resolverConfig.Attempts < serverCount THEN resolverConfig.Attempts ELSE serverCount

\* C17: a Resolve call makes at most min(Attempts, number of name servers) attempts, and
\* if each of them asks to iterate and the time budget is not exceeded the call fails
\* with 'Query attempts exceeded'.
C17_AttemptsBounded ==
    \A c \in Callers :
        resolve[c].pc # "idle"
            => /\ resolve[c].respMeta.ServerTries <= attemptsAllowed
               /\ resolve[c].pc = "loop" => resolve[c].respMeta.ServerTries < attemptsAllowed
               /\ (/\ resolve[c].pc = "done"
                   /\ resolve[c].pass.iterate
                   /\ resolve[c].timeUsed <= resolverConfig.Timeout)
                     => /\ resolve[c].ret = "Query attempts exceeded"
                        /\ resolve[c].respMeta.ServerTries = attemptsAllowed
               /\ resolve[c].ret = "Query attempts exceeded"
                     => resolve[c].respMeta.ServerTries = attemptsAllowed

\* Three name servers were asked in turn, each asked to iterate, and the call failed
\* with 'Query attempts exceeded' within its time budget.
C17_Witness ==
    \E c \in Callers :
        /\ resolve[c].pc = "done"
        /\ resolve[c].ret = "Query attempts exceeded"
        /\ resolve[c].respMeta.ServerTries = 3
        /\ Cardinality(serversAsked(c)) = 3
        /\ resolve[c].timeUsed <= resolverConfig.Timeout

\* C18 as stated: a Resolve call whose cumulative RTT exceeds Timeout fails with
\* 'Query timeout'.
C18_OverBudgetFails ==
    \A c \in Callers :
        (resolve[c].pc = "done" /\ resolve[c].timeUsed > resolverConfig.Timeout)
            => resolve[c].ret = "Query timeout"

\* C18 as amended: such a call fails with 'Query timeout' if the attempt that took it
\* over the budget asks to iterate (even when it was the last attempt allowed) and
\* returns that attempt's reply otherwise; 'Query timeout' is returned in no other case.
C18_OverBudgetFailsToIterate ==
    \A c \in Callers :
        /\ (resolve[c].pc = "done" /\ resolve[c].timeUsed > resolverConfig.Timeout)
              => IF resolve[c].pass.iterate
                 THEN resolve[c].ret = "Query timeout"
                 ELSE resolve[c].ret = "reply"
        /\ (resolve[c].pc # "idle" /\ resolve[c].ret = "Query timeout")
              => /\ resolve[c].timeUsed > resolverConfig.Timeout
                 /\ resolve[c].pass.iterate
        /\ resolve[c].pc \in {"loop", "exchanged"}
              => resolve[c].timeUsed <= resolverConfig.Timeout

\* Two attempts together exceeded the time budget and the call failed with 'Query
\* timeout'.
C18_Witness ==
    \E c \in Callers :
        /\ resolve[c].pc = "done"
        /\ resolve[c].ret = "Query timeout"
        /\ resolve[c].respMeta.ServerTries = 2
        /\ resolve[c].pass.rtt <= resolverConfig.Timeout
        /\ resolve[c].timeUsed > resolverConfig.Timeout

\* The outcome of the pass of caller c is held against the server.
failsServer(c) ==
    \/ resolve[c].pass.udp.err
    \/ resolve[c].pass.r.Rcode \in {RcodeServerFailure, RcodeRefused}

\* The outcome of the pass of caller c asks for another attempt.
asksToIterate(c) ==
    failsServer(c) \/ resolve[c].pass.r.Rcode = RcodeNotImplemented

\* C19: for each attempt Resolve reports to the bestserver and iterates as follows:
\* transport error, SERVFAIL and REFUSED give Result(success=false) and another attempt;
\* NOTIMPL gives Result(success=true) and another attempt; NOERROR, NXDOMAIN, FORMERR
\* and every other RCODE give Result(success=true) and the return of that reply.
C19_ResultAndIterate ==
    [][\A c \in Callers :
          (resolve[c].pc = "exchanged" /\ resolve'[c].pc # "exchanged")
             => /\ call'.op = "Result"
                /\ call'.index = resolve[c].pass.bsix
                /\ call'.success = ~failsServer(c)
                /\ IF asksToIterate(c)
                   THEN \/ resolve'[c].pc = "loop"
                           /\ resolve'[c].attempts = resolve[c].attempts + 1
                        \/ resolve'[c].pc = "done"
                           /\ resolve'[c].ret \in {"Query timeout", "Query attempts exceeded"}
                   ELSE /\ resolve'[c].pc = "done"
                        /\ resolve'[c].ret = "reply"
                        /\ resolve'[c].pass.r = resolve[c].pass.r]_vars

\* A NOTIMPL answer has been reported as a success and the call goes round again.
C19_Witness ==
    \E c \in Callers :
        /\ resolve[c].pc = "loop"
        /\ resolve[c].iterated = sfxNotImplemented
        /\ call.op = "Result"
        /\ call.success

\* The main loop has taken a termination signal (break Running).
tookTermination == mainPc \in {"Stopping", "Waiting"}

\* Listener goroutine i stays blocked on the error channel: it is at its send, the
\* buffer is full, and main has left the only select that receives from the channel.
blockedOnErrorChannel(i) == tookTermination /\ listener[i] = "returned" /\ ~canSend

\* C20: in both daemons, once the main loop has taken a termination signal, no listener
\* goroutine stays blocked on the error channel, whatever else (the delayed Constrain
\* goroutine included) has written to it, so that every listener goroutine reaches
\* wg.Done() and wg.Wait() can return.
C20_NoListenerBlocked ==
    \A i \in Listeners : ~blockedOnErrorChannel(i)

\* C20, seen from wg.Wait(): main waits on the WaitGroup with every listener goroutine
\* either finished or stuck at its send, and at least one stuck: wg.Wait() never returns.
C20_Witness ==
    /\ mainPc = "Waiting"
    /\ wg > 0
    /\ \E i \in Listeners : blockedOnErrorChannel(i)
    /\ \A i \in Listeners : listener[i] = "done" \/ blockedOnErrorChannel(i)
    /\ \E k \in 1..Len(errorChannel) : errorChannel[k] = 0

\* C20 for the proxy alone, where only the listener goroutines send on the error
\* channel: no listener goroutine is ever blocked at its send.
C20_ProxyNeverBlocked ==
    daemon = ProxyProgram => \A i \in Listeners : listener[i] = "returned" => canSend

\* serveDoH has called t.local.Resolve with doh.forwarded.
forwards == doh.pc = "returned" /\ (doh.resolved \/ doh.serx = serLocalResolutionFailed)

\* C21: for every DoH request with the header X-trustydns-Synth: 0/0 the query given to
\* the local resolver holds no ECS option, whatever the request's query holds.
C21_SynthZeroNoECS ==
    (forwards /\ doh.req.Synth = <<0, 0>>) => FindECS(doh.forwarded.Extra) = <<>>

\* C21 as the code has it: for every DoH request with the header X-trustydns-Synth: 0/0
\* whose query is not signed with TSIG, the query given to the local resolver holds no
\* ECS option; a signed query is given to the local resolver as it came.
C21_SynthZeroNoECSUnlessSigned ==
    (forwards /\ doh.req.Synth = <<0, 0>>) =>
        IF IsTsig(doh.req.Query.Extra)
        THEN doh.forwarded.Extra = doh.req.Query.Extra
        ELSE FindECS(doh.forwarded.Extra) = <<>>

C21_Witness ==
    /\ forwards /\ doh.req.Synth = <<0, 0>>
    /\ ~IsTsig(doh.req.Query.Extra)
    /\ dohConfig.ecsSet /\ dohConfig.ecsSetIPv4PrefixLen > 0
    /\ FindECS(doh.req.Query.Extra) # <<>>
    /\ FindECS(doh.forwarded.Extra) = <<>>

\* The prefix lengths in effect for the request: those of the header if it is there,
\* else those of the configuration.
effectiveLengths ==
    IF Len(doh.req.Synth) > 0 THEN extractPrefixLengths(doh.req.Synth)
    ELSE [err |-> FALSE, ipv4 |-> dohConfig.ecsSetIPv4PrefixLen,
          ipv6 |-> dohConfig.ecsSetIPv6PrefixLen]

\* serveDoH has called synthesizeECS and given the query to the local resolver.
synthesizes ==
    /\ forwards
    /\ ~IsTsig(doh.req.Query.Extra)
    /\ (Len(doh.req.Synth) > 0 \/ dohConfig.ecsSet)

\* The Family and SourceNetmask of the ECS options of the query given to the resolver.
forwardedECS ==
    LET ecs == FindECS(doh.forwarded.Extra)
    IN [k \in 1..Len(ecs) |-> <<ecs[k].Family, ecs[k].SourceNetmask>>]

\* C22: when the DoH server synthesizes ECS with the lengths p4/p6, an IPv4 peer gets an
\* ECS of family 1 and prefix p4 exactly when p4 > 0, an IPv6 peer one of family 2 and
\* prefix p6 exactly when p6 > 0, and in every other case the query given to the local
\* resolver holds no ECS.
C22_SynthByPeerFamily ==
    synthesizes =>
        forwardedECS =
            IF doh.req.RemoteAddr = PeerIPv4 /\ effectiveLengths.ipv4 > 0
            THEN <<(<<1, effectiveLengths.ipv4>>)>>
            ELSE IF doh.req.RemoteAddr = PeerIPv6 /\ effectiveLengths.ipv6 > 0
            THEN <<(<<2, effectiveLengths.ipv6>>)>>
            ELSE <<>>

\* C22, the case that goes wrong: an IPv4 peer, no length for IPv4 and one for IPv6.
C22_Witness ==
    /\ synthesizes
    /\ doh.req.RemoteAddr = PeerIPv4
    /\ effectiveLengths.ipv4 = 0 /\ effectiveLengths.ipv6 > 0
    /\ forwardedECS = <<(<<2, effectiveLengths.ipv6>>)>>

\* C23: for a request whose query is not signed with TSIG, the query given to the local
\* resolver never holds a PADDING option, and the reply is turned into the body with
\* PadAndPack to a multiple of 468 if and only if the request's query held a PADDING
\* option, with Pack otherwise.
C23_PaddingHopByHop ==
    (forwards /\ ~IsTsig(doh.req.Query.Extra)) =>
        /\ FindPadding(doh.forwarded.Extra) = -1
        /\ doh.resolved =>
              /\ doh.packing = IF FindPadding(doh.req.Query.Extra) >= 0
                               THEN "PadAndPack" ELSE "Pack"
              /\ (doh.packing = "PadAndPack" /\ doh.serx # serDNSPackResponseFailed) =>
                    /\ doh.body.len % Rfc8467ServerPadModulo = 0
                    /\ FindPadding(doh.body.msg.Extra) > 0

C23_Witness ==
    /\ forwards /\ ~IsTsig(doh.req.Query.Extra) /\ doh.resolved
    /\ FindPadding(doh.req.Query.Extra) >= 0
    /\ doh.status = StatusOK
    /\ doh.packing = "PadAndPack"
    /\ doh.body.len = 2 * Rfc8467ServerPadModulo

\* Config asks for ECS Request: one of the two prefix lengths is set.
ecsRequestConfigured == 
    remoteConfig.ECSRequestIPv4PrefixLen # 0 \/ remoteConfig.ECSRequestIPv6PrefixLen # 0

\* Resolve has built its http.Request.
requestBuilt == remote.pc \in {"sent", "returned"} /\ remote.request.Method # "none"

\* The DNS message bytes the request delivers.
delivered ==
    IF remote.request.Method = "GET" THEN DecodeString(remote.request.dns)
    ELSE remote.request.Body

\* C24: the HTTP request of Resolve carries the X-trustydns-Synth header only when ECS
\* Request is configured, the message is mutable and the query holds no ECS after the
\* Remove and Set rules.
C24_SynthOnlyWhenRequestConfigured ==
    (requestBuilt /\ remote.request.Synth # NoSynthHeader)
        => /\ ecsRequestConfigured
           /\ ~IsTsig(remote.query.Extra)
           /\ FindECS(remote.rules.extra) = <<>>

\* An IN query without ECS is sent with the header 0/0 by a resolver that has no ECS
\* Request configured.
C24_Witness ==
    /\ requestBuilt
    /\ ~ecsRequestConfigured
    /\ remoteConfig.ECSSetCIDR = NoCIDR
    /\ isINQuery(remote.query)
    /\ FindECS(remote.query.Extra) = <<>>
    /\ remote.request.Synth = <<0, 0>>

\* C25 as stated: a query that holds an ECS option, with Remove not configured, is
\* delivered byte-identical to the packed original query.
C25_BytesIdenticalWithECS ==
    (requestBuilt /\ FindECS(remote.query.Extra) # <<>> /\ ~remoteConfig.ECSRemove)
        => delivered = Pack(remote.query, remote.mLen, remote.packs)

\* C25: a query that holds an ECS option, with Remove not configured, is delivered
\* byte-identical to the packed original query if its Id is kept (POST, or an Id of 0) and
\* it is not padded (GeneratePadding off, or a query signed with a TSIG).
C25_BytesIdenticalWithECSUnlessRewritten ==
    (/\ requestBuilt
     /\ FindECS(remote.query.Extra) # <<>>
     /\ ~remoteConfig.ECSRemove
     /\ (~remoteConfig.UseGetMethod \/ remote.query.Id = 0)
     /\ (~remoteConfig.GeneratePadding \/ IsTsig(remote.query.Extra)))
        => delivered = Pack(remote.query, remote.mLen, remote.packs)

C25_Witness ==
    /\ requestBuilt
    /\ isINQuery(remote.query)
    /\ FindECS(remote.query.Extra) # <<>>
    /\ ~remoteConfig.ECSRemove
    /\ remoteConfig.ECSRequestIPv4PrefixLen # 0
    /\ remote.query.Id # 0
    /\ remote.request.Method = "POST"
    /\ remote.request.Body = Pack(remote.query, remote.mLen, remote.packs)

\* C26: after a transport error of the HTTPS exchange Resolve has called
\* Result(server, false, now, 0) for the server Best() gave it, and it returns the error
\* and no reply.
C26_TransportErrorReported ==
    (remote.pc = "returned" /\ remote.dex = dexDoRequest)
        => /\ remote.result = [called |-> TRUE, server |-> remote.bestURL,
                               success |-> FALSE, now |-> clock, latency |-> 0]
           /\ call.op = "Result" /\ call.server = remote.bestURL /\ ~call.success
           /\ call.index = remote.bsix
           /\ stats[remote.bsix].lastStatusWasFailure
           /\ remote.err
           /\ remote.reply = NoRemoteReply

C26_Witness ==
    /\ remote.pc = "returned"
    /\ remote.dex = dexDoRequest
    /\ remote.request.Method = "POST"
    /\ clock > remote.startTime
    /\ remote.result.called /\ remote.result.now = clock
    /\ remoteStats.bsList[remote.bsix].failures[dexDoRequest] = 1

\* C27: every reply Resolve returns has the Id the query had when Resolve was called.
C27_ReplyHasOriginalId ==
    (remote.pc = "returned" /\ ~remote.err) => remote.reply.Id = remote.query.Id

\* A GET sent with Id 0 whose reply comes back with Id 0 and is returned with the Id 1
\* of the query.
C27_Witness ==
    /\ remote.pc = "returned" /\ ~remote.err
    /\ remote.request.Method = "GET"
    /\ remote.query.Id = 1
    /\ delivered.msg.Id = 0
    /\ remote.httpR.Id = 0
    /\ remote.reply.Id = 1

\* C28: Done() called while current is 0 panics and leaves current and peak as they
\* were; any other Done() takes exactly one from current and leaves peak; current is
\* never negative.
C28_DonePanicsAtZero ==
    /\ counter.current >= 0
    /\ counted.op = "Done" =>
          IF counted.was.current = 0
          THEN counted.panic /\ counter = counted.was
          ELSE /\ ~counted.panic
               /\ counter.current = counted.was.current - 1
               /\ counter.peak = counted.was.peak

\* A Done() without a matching Add(), after an Add() and its Done().
C28_Witness ==
    /\ counted.op = "Done"
    /\ counted.panic
    /\ counted.was.current = 0
    /\ counter.peak > 0

\* C29: Peak(true) returns the peak held before the call and sets peak to current;
\* Peak(false) leaves the peak; peak >= current in every state.
C29_PeakResetsToCurrent ==
    /\ counter.peak >= counter.current
    /\ counted.op = "Peak" =>
          /\ counted.returned = counted.was.peak
          /\ counter.current = counted.was.current
          /\ counter.peak = IF counted.resetCounters THEN counted.was.current
                            ELSE counted.was.peak

\* Peak(true) while two calls are under way and the peak was higher.
C29_Witness ==
    /\ counted.op = "Peak"
    /\ counted.resetCounters
    /\ counted.was.current = 2
    /\ counted.was.peak > 2
    /\ counted.returned = counted.was.peak
    /\ counter.peak = 2

\* The step is a call of Tracker.ConnState.
IsConnStateStep == tracked'.op = "ConnState" /\ clock' = clock

\* The error bucket of a ConnState call for a connection cs and a state, -1 for none.
errorBucket(cs, state) ==
    IF state = StateNew THEN (IF cs.inMap THEN errDanglingConn ELSE -1)
    ELSE IF ~cs.inMap THEN errNoConnInMap
    ELSE IF state \in {StateHijacked, StateClosed}
    THEN (IF cs.currentSessions > 0 THEN errConnsLost ELSE -1)
    ELSE IF state \in {StateActive, StateIdle} THEN -1
    ELSE errUnknownState

\* C30: ConnState returns false and adds one to exactly one error bucket for StateNew
\* with a key in the map (dangling-conn, the entry replaced by a fresh one), for any
\* other state with a key not in the map (no-conn-in-map), for Closed or Hijacked with
\* sessions above zero (conns-lost, the entry removed) and for an unknown state; in
\* every other case it returns true and no error bucket changes.
C30_ConnStateErrors ==
    [][IsConnStateStep =>
          /\ tracked'.ok = (errorBucket(tracker.connMap[tracked'.key], tracked'.state) = -1)
          /\ \A ix \in 0..(errArSize - 1) :
                tracker'.stats.errors[ix] =
                    tracker.stats.errors[ix]
                        + (IF ix = errorBucket(tracker.connMap[tracked'.key], tracked'.state)
                           THEN 1 ELSE 0)
          /\ tracked'.state = StateNew =>
                tracker'.connMap[tracked'.key] = newConnection(clock)
          /\ (tracked'.state \in {StateHijacked, StateClosed}
                /\ tracker.connMap[tracked'.key].inMap) =>
                ~tracker'.connMap[tracked'.key].inMap]_vars

\* A connection closed while one of its sessions was under way, some time after it
\* was opened.
C30_Witness ==
    /\ tracked.op = "ConnState"
    /\ tracked.state = StateClosed
    /\ ~tracked.ok
    /\ tracker.stats.errors[errConnsLost] = 1
    /\ ~tracker.connMap[tracked.key].inMap
    /\ tracker.stats.connFor > 0

\* PadAndPack has returned bytes.
padReturned == padded.pc = "returned" /\ ~padded.out.err

\* The bytes of the PADDING option PadAndPack put in the message.
paddingAdded == FindPadding(padded.out.msg.Extra)

\* C31: for a modulo M in 1..65535 every byte string PadAndPack returns has a length
\* that is a multiple of M; for M outside 1..65535 PadAndPack returns an error and no
\* bytes.
C31_PaddedToModulo ==
    padded.pc = "returned" =>
        IF padded.moduloSize >= 1 /\ padded.moduloSize <= MaximumViableDNSMessage
        THEN ~padded.out.err => padded.out.len % padded.moduloSize = 0
        ELSE padded.out.err /\ padded.out.len = 0 /\ padded.out.msg = NoMsg

\* A message with padding of its own and an ECS, padded to the modulo of the server.
C31_Witness ==
    /\ padReturned
    /\ padded.moduloSize = Rfc8467ServerPadModulo
    /\ FindPadding(padded.msg.Extra) = 0
    /\ FindECS(padded.msg.Extra) # <<>>
    /\ padded.out.len = Rfc8467ServerPadModulo
    /\ paddingAdded = Rfc8467ServerPadModulo - padded.mLen

\* C40: PadAndPack pads to the closest multiple of M: a message that packs to a
\* multiple of M with an empty PADDING option gets no padding bytes, and the output is
\* always less than M bytes longer than the message with an empty PADDING option.
C40_ClosestMultiple ==
    padReturned =>
        /\ padded.mLen % padded.moduloSize = 0 =>
              (paddingAdded = 0 /\ padded.out.len = padded.mLen)
        /\ padded.out.len - padded.mLen < padded.moduloSize

\* A message of exactly 128 bytes with its empty PADDING option is returned as 256
\* bytes, 128 of them padding.
C40_Witness ==
    /\ padReturned
    /\ padded.moduloSize = Rfc8467ClientPadModulo
    /\ padded.mLen = Rfc8467ClientPadModulo
    /\ paddingAdded = Rfc8467ClientPadModulo
    /\ padded.out.len = 2 * Rfc8467ClientPadModulo

\* The call of ReduceTTL has returned.
reduceReturned == reduced # <<>> /\ reduced.pc = "returned"

\* What an RR of TTL above the minimum is to become, and one at or below it.
reducedRR(rr, by, minimum) ==
    IF rr.Ttl > minimum
    THEN [rr EXCEPT !.Ttl = IF @ - by >= minimum THEN @ - by ELSE minimum]
    ELSE rr

\* A section after the call holds as many RRs as before, each reduced as it is to be.
sectionReduced(before, after, by, minimum) ==
    /\ Len(after) = Len(before)
    /\ \A i \in 1..Len(before) : after[i] = reducedRR(before[i], by, minimum)

\* C32: ReduceTTL(msg, by, minimum) sets the TTL of every RR of Answer, Ns and Extra that
\* is above minimum to max(TTL - by, minimum), leaves the RRs at or below minimum as they
\* are, adds and removes no RR, and with by = 0 leaves the message unchanged.
C32_TTLsReducedAndClamped ==
    reduceReturned =>
        /\ sectionReduced(reduced.msg.Answer, reduced.out.Answer, reduced.by, reduced.minimum)
        /\ sectionReduced(reduced.msg.Ns, reduced.out.Ns, reduced.by, reduced.minimum)
        /\ sectionReduced(reduced.msg.Extra, reduced.out.Extra, reduced.by, reduced.minimum)
        /\ reduced.out.Id = reduced.msg.Id
        /\ (reduced.by = 0 => reduced.out = reduced.msg /\ reduced.count = 0)

\* A call whose answers are one below the minimum, left alone, and one above it that the
\* subtraction would take below the minimum, clamped.
C32_Witness ==
    /\ reduceReturned
    /\ reduced.by = 4 /\ reduced.minimum = 1
    /\ reduced.msg.Answer = <<RR("A", 0), RR("A", 3)>>
    /\ reduced.out.Answer = <<RR("A", 0), RR("A", 1)>>
    /\ reduced.msg.Ns # <<>>

\* C39: an OPT pseudo-RR in the Additional section is left unchanged by any ReduceTTL
\* call.
C39_OPTUnchanged ==
    reduceReturned =>
        \A i \in 1..Len(reduced.msg.Extra) :
            isOPT(reduced.msg.Extra[i]) => reduced.out.Extra[i] = reduced.msg.Extra[i]

\* An OPT RR with the DO flag set goes through ReduceTTL(msg, 2, 1) and comes out with
\* the flag cleared.
C39_Witness ==
    /\ reduceReturned
    /\ reduced.by = 2 /\ reduced.minimum = 1
    /\ reduced.msg.Extra = <<ReplyOPT(<<ZeroPadding>>, OptTtlDO)>>
    /\ reduced.out.Extra = <<ReplyOPT(<<ZeroPadding>>, OptTtlDO - 2)>>

\* The Resolve call has returned after Best() gave it a server.
resolvedWithServer == remote.pc = "returned" /\ remote.bsix >= 0

\* C34: every Resolve call that obtains a server from Best() has made a Result() call for
\* that server when it returns, on the success path and on every error path.
C34_ResultForBestServer ==
    resolvedWithServer => remote.result.called /\ remote.result.server = remote.bestURL

\* http.NewRequest refuses the URL made of the server Best() gave: Resolve counts the
\* failure against that server and returns, and the last call on the server set is still
\* Best().
C34_Witness ==
    /\ resolvedWithServer
    /\ remote.dex = dexCreateHTTPRequest
    /\ remoteStats.bsList[remote.bsix].failures[dexCreateHTTPRequest] = 1
    /\ remote.err
    /\ ~remote.result.called
    /\ call.op = "Best"

\* C35: a Resolve call that returns an error has not reported its server as successful.
C35_NoSuccessWithError ==
    (remote.pc = "returned" /\ remote.err)
        => ~(remote.result.called /\ remote.result.success)

\* A response with a status other than 200: Resolve returns the error after it has
\* called Result(bestURL, true, endTime, totalDuration), which the server set has taken
\* as a success.
C35_Witness ==
    /\ remote.pc = "returned" /\ remote.err
    /\ remote.dex = dexNonStatusOk
    /\ remote.reply = NoRemoteReply
    /\ remote.result.called /\ remote.result.success /\ remote.result.server = remote.bestURL
    /\ call.op = "Result" /\ call.success
    /\ ~stats[remote.bsix].lastStatusWasFailure

\* C37: in every state of the tracker, directly after Report(true) included, the peak
\* connection count is at least the number of connections in the map.
C37_PeakCoversCurrent == tracker.stats.peakConns >= connCount(tracker.connMap)

\* Report(true) with two connections open: the report that follows would say curr=2 pk=0.
C37_Witness ==
    /\ tracked.op = "Report"
    /\ connCount(tracker.connMap) = 2
    /\ tracker.stats.peakConns = 0

\* C38: the GET event is recorded only for GET requests; a POST request records
\* v4-synth, v6-synth or no synthesis event, never GET.
C38_GetEventOnlyForGet ==
    (doh.pc = "returned" /\ doh.req.Method = "POST") => ~doh.evs[evGet]

\* A POST request from an IPv4 peer whose synthesis header asks for the prefix lengths 0
\* and 0: synthesizeECS adds nothing and the request is answered and counted with the GET
\* event and no synthesis event.
C38_Witness ==
    /\ doh.pc = "returned"
    /\ doh.req.Method = "POST"
    /\ doh.req.Synth = <<0, 0>>
    /\ doh.req.RemoteAddr = PeerIPv4
    /\ doh.status = StatusOK
    /\ doh.evs[evGet] /\ ~doh.evs[evECSv4Synth] /\ ~doh.evs[evECSv6Synth]
    /\ FindECS(doh.forwarded.Extra) = <<>>
    /\ dohStats.eventCounters[evGet] = 1

\* The URL of the request carries one parameter, named dns, with a single value.
singleDnsParam(req) ==
    /\ DOMAIN req.QueryParam = {Rfc8484QueryParam}
    /\ Len(req.QueryParam[Rfc8484QueryParam]) = 1

\* C33: a GET request whose URL does not carry exactly one parameter, named dns, with a
\* single value, is answered 400 and does not reach the resolver.
C33_GetNeedsSingleDnsParam ==
    (doh.pc = "returned" /\ doh.req.Method = "GET" /\ ~singleDnsParam(doh.req))
        => doh.status = StatusBadRequest /\ ~doh.resolved

\* GET /dns-query?dns=<query>&dns=zubzub: the first value is decoded, the query resolved
\* and the request answered 200.
C33_Witness ==
    /\ doh.pc = "returned"
    /\ doh.req.Method = "GET"
    /\ doh.req.QueryParam = urlValues({Rfc8484QueryParam}, <<QueryValue, NotBase64>>)
    /\ doh.status = StatusOK
    /\ doh.resolved
    /\ doh.evs[evGet]
    /\ dohStats.successCount = 1

\* The attempts of the call of caller c have gone to pairwise distinct servers.
attemptsDistinct(c) ==
    \A i, j \in 1..Len(resolve[c].asked) :
        i # j => resolve[c].asked[i].server # resolve[c].asked[j].server

\* C36: with concurrent Resolve calls on the shared traditional server set the attempts
\* of each call go to pairwise distinct servers, and a call that ends with 'Query
\* attempts exceeded' while Attempts is at least the number of servers has asked every
\* server.
C36_ConcurrentAttemptsDistinct ==
    \A c \in DOMAIN resolve :
        resolve[c].pc \in {"exchanged", "loop", "done"} =>
            /\ attemptsDistinct(c)
            /\ (/\ resolve[c].pc = "done"
                /\ resolve[c].ret = "Query attempts exceeded"
                /\ resolverConfig.Attempts >= serverCount)
                   => serversAsked(c) = {servers(serverCount)[i] : i \in 1..serverCount}

\* Two name servers and two attempts: while one call was between its attempts another
\* call failed on the second server and moved the best server back to the first, which
\* the first call then asked again; it ends with 'Query attempts exceeded' and has never
\* asked the second server.
C36_Witness ==
    \E c \in DOMAIN resolve :
        /\ DOMAIN resolve = SharedCallers
        /\ serverCount = 2
        /\ resolverConfig.Attempts = 2
        /\ resolve[c].pc = "done"
        /\ resolve[c].ret = "Query attempts exceeded"
        /\ Len(resolve[c].asked) = 2
        /\ serversAsked(c) = {servers(serverCount)[1]}

====
